---------------------------- MODULE Spec2Model ----------------------------
(***************************************************************************)
(* TabTriage backend (src/backend/main.py): capture with de-duplication,   *)
(* ignored domains, the pending-close queue, single triage, auto-triage    *)
(* with its undo buffer and the auto-triage preview.                       *)
(*                                                                         *)
(* The SQLite database is the pair (sessions, tabs); the module-level      *)
(* dictionaries and lists of main.py are variables of the same name.       *)
(* Every HTTP handler is one action; `response` records the handler that   *)
(* ran last and the JSON (or HTTP error) it returned, for capture and undo *)
(* also the request it was given.                                          *)
(*                                                                         *)
(* A nullable column or field is None (<<>>) or Some(v) (<<v>>).           *)
(* Strings that the code takes apart (hostnames, domains) are sequences of *)
(* one-character strings.                                                  *)
(***************************************************************************)
EXTENDS Integers, Sequences, FiniteSets, TLC

VARIABLES
    now,            \* the wall clock (datetime('now'), time.time()), in ticks
    sessions,       \* table sessions: the set of session ids
    tabs,           \* table tabs: sequence of rows, rowid = index
    ignored,        \* table ignored_domains: set of domain strings
    progress,       \* _session_progress: session id -> ProgressRecord
    started,        \* background threads started: session id -> the thread's
                    \* arguments, position and locals
    pending_close,  \* _pending_close_urls: list of URLs
    undo_buffer,    \* _undo_buffer: batch id -> [pre_state, timestamp]
    issued,         \* number of batch ids handed out so far
    pending_re_extract, \* tabs queued for re-extraction by the extension:
                    \* tab id -> url
    inflight,       \* requests being served by a worker thread: local state
    response        \* last handler, its request and its result

vars == <<now, sessions, tabs, ignored, progress, started, pending_close,
          undo_buffer, issued, pending_re_extract, inflight, response>>

None == <<>>
Some(v) == <<v>>

(***************************************************************************)
(* Bounds of the model.                                                    *)
(***************************************************************************)
MaxNow == 3          \* the clock stops ticking here
MaxReq == 2          \* longest capture submission list
MaxTabs == 2         \* most rows of table tabs
MaxBatches == 1      \* most undo batches issued
MaxSeed == 2         \* most rows of a seeded database

(***************************************************************************)
(* Program constants.  One tick of the clock is 12 hours in the capture    *)
(* specification (Day, main.py:165 '-1 day') and 150 seconds in the triage *)
(* specification (UNDO_TTL, main.py:767 'time.time() - 300').              *)
(***************************************************************************)
Day == 2
UNDO_TTL == 2

Categories == {"read-later", "reference", "actionable", "archive"}

(***************************************************************************)
(* Strings as character sequences.                                         *)
(***************************************************************************)
WWW_DOT == <<"w", "w", "w", ".">>

\* str.replace("www.", ""): every non-overlapping occurrence, left to right
RECURSIVE StripWww(_)
StripWww(s) ==
    IF Len(s) = 0 THEN <<>>
    ELSE IF Len(s) >= 4 /\ SubSeq(s, 1, 4) = WWW_DOT
         THEN StripWww(SubSeq(s, 5, Len(s)))
         ELSE <<Head(s)>> \o StripWww(Tail(s))

\* str.lower() on the alphabet of the model
LowerChar(c) == IF c = "A" THEN "a" ELSE IF c = "B" THEN "b" ELSE c
Lower(s) == [i \in 1..Len(s) |-> LowerChar(s[i])]

\* str.strip(): leading and trailing blanks
RECURSIVE LStrip(_)
LStrip(s) == IF Len(s) > 0 /\ Head(s) = " " THEN LStrip(Tail(s)) ELSE s
RECURSIVE RStrip(_)
RStrip(s) ==
    IF Len(s) > 0 /\ s[Len(s)] = " " THEN RStrip(SubSeq(s, 1, Len(s) - 1)) ELSE s
Strip(s) == RStrip(LStrip(s))

(***************************************************************************)
(* URLs.  A URL is a string; urlparse and the two substring tests of       *)
(* main.py:143 read it through UrlParts: host is urlparse(url).hostname    *)
(* (None for a file:// URL), port5111 says that the authority ends with    *)
(* ":5111", path is the rest of the URL.                                   *)
(***************************************************************************)
HostA    == <<"a", ".", "i", "o">>
HostB    == <<"b", ".", "i", "o">>
HostWwwB == <<"w", "w", "w", ".", "b", ".", "i", "o">>

UrlA1     == "http://a.io/1"
UrlA2     == "http://a.io/2"
UrlWwwB   == "http://www.b.io/1"
UrlHosted == "http://a.io:5111/"
UrlFile   == "file:///x/TabTriage/index.html"

\* the URLs a capture request may carry
URLS == {UrlA1, UrlWwwB, UrlFile}

UrlParts(url) ==
    CASE url = UrlA1     -> [host |-> Some(HostA), port5111 |-> FALSE, path |-> "/1"]
      [] url = UrlA2     -> [host |-> Some(HostA), port5111 |-> FALSE, path |-> "/2"]
      [] url = UrlWwwB   -> [host |-> Some(HostWwwB), port5111 |-> FALSE, path |-> "/1"]
      [] url = UrlHosted -> [host |-> Some(HostA), port5111 |-> TRUE, path |-> "/"]
      [] url = UrlFile   -> [host |-> None, port5111 |-> FALSE,
                             path |-> "/x/TabTriage/index.html"]

\* main.py:143  "TabTriage/index.html" in url or url.rstrip("/").endswith(":5111")
IsOwnPage(url) ==
    \/ UrlParts(url).path = "/x/TabTriage/index.html"
    \/ UrlParts(url).port5111 /\ UrlParts(url).path \in {"", "/"}

\* main.py:78-83  urlparse(url).hostname.replace("www.", ""), "" on exception
_extract_domain(url) ==
    IF UrlParts(url).host = None THEN <<>> ELSE StripWww(UrlParts(url).host[1])


(***************************************************************************)
(* Table rows.                                                             *)
(***************************************************************************)
\* mutant of NewTab: the row is stored without its session
NewTab_unowned(session_id, url, t) ==
    [session_id |-> 0, url |-> url, captured_at |-> t,
     summary |-> None, suggested_category |-> None, category |-> None,
     starred |-> 0, triaged_at |-> None, tags |-> None,
     project_id |-> None, user_note |-> None,
     cluster_id |-> None, cluster_label |-> None, content |-> None]

\* main.py:192-196  the columns the INSERT leaves out take their defaults:
\* captured_at the database clock, starred 0, the rest NULL
NewTab(session_id, url, t) ==
    [session_id |-> session_id, url |-> url, captured_at |-> t,
     summary |-> None, suggested_category |-> None, category |-> None,
     starred |-> 0, triaged_at |-> None, tags |-> None,
     project_id |-> None, user_note |-> None,
     cluster_id |-> None, cluster_label |-> None, content |-> None]

SetMax(S) == CHOOSE m \in S : \A x \in S : x <= m

\* mutant of NewRowId: the id of the latest session is handed out again
NewRowId_reused(S) == IF S = {} THEN 1 ELSE SetMax(S)

\* main.py:136  cur.lastrowid of the INSERT INTO sessions
NewRowId(S) == IF S = {} THEN 1 ELSE SetMax(S) + 1

(***************************************************************************)
(* Capture (main.py:128-220).                                              *)
(***************************************************************************)
\* mutant of IsIgnoredDomain: the ignore list is not consulted
IsIgnoredDomain_never(ign, url) == FALSE

\* main.py:148-155  the domain is not empty and is a row of ignored_domains
IsIgnoredDomain(ign, url) ==
    LET tab_domain == _extract_domain(url)
    IN  tab_domain # <<>> /\ tab_domain \in ign

\* mutants of RecentlyCaptured: a window of one tick; no window at all
RecentlyCaptured_short(rows, url, t) ==
    \E i \in 1..Len(rows) : rows[i].url = url /\ rows[i].captured_at > t - 1
RecentlyCaptured_forever(rows, url, t) ==
    \E i \in 1..Len(rows) : rows[i].url = url

\* main.py:164-168  SELECT id FROM tabs WHERE url = ? AND
\*                  captured_at > datetime('now', '-1 day')
RecentlyCaptured(rows, url, t) ==
    \E i \in 1..Len(rows) : rows[i].url = url /\ rows[i].captured_at > t - Day

\* main.py:158  the URL was seen earlier in this submission list
SeenInBatch(seen_urls, url) == url \in seen_urls

\* mutant of Skip: the submission is dropped but not counted
Skip_uncounted(acc) == acc

\* main.py:144, 154, 159, 170  skipped += 1; continue
Skip(acc) == [acc EXCEPT !.skipped = @ + 1]

\* main.py:141-197  the loop over req.tabs, from submission i on;
\* acc = [seen_urls, rows, tab_ids, skipped]
RECURSIVE CaptureLoop(_, _, _, _, _, _)
CaptureLoop(req, i, session_id, ign, t, acc) ==
    IF i > Len(req) THEN acc
    ELSE LET url == req[i]
             skip == Skip(acc)
         IN  IF IsOwnPage(url)
                 THEN CaptureLoop(req, i + 1, session_id, ign, t, skip)
             ELSE IF IsIgnoredDomain(ign, url)
                 THEN CaptureLoop(req, i + 1, session_id, ign, t, skip)
             ELSE IF SeenInBatch(acc.seen_urls, url)
                 THEN CaptureLoop(req, i + 1, session_id, ign, t, skip)
             ELSE IF RecentlyCaptured(acc.rows, url, t)
                 THEN CaptureLoop(req, i + 1, session_id, ign, t,
                          [skip EXCEPT !.seen_urls = @ \cup {url}])
             ELSE CaptureLoop(req, i + 1, session_id, ign, t,
                      [acc EXCEPT
                          !.seen_urls = @ \cup {url},
                          !.rows = Append(@, NewTab(session_id, url, t)),
                          !.tab_ids = Append(@, Len(acc.rows) + 1)])

\* mutant of SessionsAfterCapture: the empty session stays
SessionsAfterCapture_kept(sess, session_id, tab_ids) == sess

\* main.py:199-201  an empty session is deleted again
SessionsAfterCapture(sess, session_id, tab_ids) ==
    IF tab_ids = <<>> THEN sess \ {session_id} ELSE sess

\* mutant of NewProgress: the record starts out finished
NewProgress_finished(tab_ids) ==
    [total |-> Len(tab_ids), completed |-> Len(tab_ids), phase |-> "done",
     clusters |-> 0]

\* main.py:206-211
NewProgress(tab_ids) ==
    [total |-> Len(tab_ids), completed |-> 0, phase |-> "summarizing",
     clusters |-> 0]

\* main.py:214-215  threading.Thread(target=_summarize_and_cluster,
\* args=(session_id, tab_ids)).start(): the thread has its arguments and
\* stands before the first iteration of its loop
NewThread(tab_ids) ==
    [tab_ids |-> tab_ids, i |-> 1, pc |-> "summarize", tab_list |-> {},
     raw |-> <<>>]

Extend(f, k, v) == [x \in DOMAIN f \cup {k} |-> IF x = k THEN v ELSE f[x]]

capture_tabs(req) ==
    LET session_id == NewRowId(sessions)
    IN  \E r \in {CaptureLoop(req, 1, session_id, ignored, now,
                      [seen_urls |-> {}, rows |-> tabs, tab_ids |-> <<>>,
                       skipped |-> 0])} :
        /\ Len(r.rows) <= MaxTabs
        /\ sessions' = SessionsAfterCapture(sessions \cup {session_id},
                                            session_id, r.tab_ids)
        /\ tabs' = r.rows
        /\ IF r.tab_ids = <<>>
           THEN /\ response' = [op |-> "capture", req |-> req,
                                session_id |-> None, tab_count |-> 0,
                                skipped |-> r.skipped,
                                status |-> "all_duplicates"]
                /\ UNCHANGED <<progress, started>>
           ELSE /\ progress' = Extend(progress, session_id,
                                      NewProgress(r.tab_ids))
                /\ started' = Extend(started, session_id,
                                     NewThread(r.tab_ids))
                /\ response' = [op |-> "capture", req |-> req,
                                session_id |-> Some(session_id),
                                tab_count |-> Len(r.tab_ids),
                                skipped |-> r.skipped,
                                status |-> "captured"]
        /\ UNCHANGED <<pending_re_extract,
                       inflight, now, ignored, pending_close, undo_buffer, issued>>

\* the submission lists of the model: up to MaxReq URLs
Requests == UNION {[1..n -> URLS] : n \in 0..MaxReq}

Capture == \E req \in Requests : capture_tabs(req)

(***************************************************************************)
(* Ignored domains (main.py:346-365).                                      *)
(***************************************************************************)
\* the strings a client may send as a domain
DomainInputs == {HostB, HostWwwB, <<" ", "B", ".", "i", "o">>,
                 <<"w", "w", "w", ".">>}

\* mutant of NormalizeDomain: the domain is stored as it was sent, trimmed
NormalizeDomain_raw(d) == Strip(d)

\* main.py:348  req.get("domain", "").strip().lower().replace("www.", "")
NormalizeDomain(d) == StripWww(Lower(Strip(d)))

add_ignored_domain(d) ==
    LET domain == NormalizeDomain(d)
    IN  /\ IF domain = <<>>
           THEN /\ response' = [op |-> "add_ignored", req |-> d, http |-> 400]
                /\ UNCHANGED ignored
           ELSE /\ ignored' = ignored \cup {domain}
                /\ response' = [op |-> "add_ignored", req |-> d, http |-> 200,
                                domain |-> domain, status |-> "added"]
        /\ UNCHANGED <<pending_re_extract,
                       inflight, now, sessions, tabs, progress, started, pending_close,
                       undo_buffer, issued>>

\* main.py:363  DELETE FROM ignored_domains WHERE domain = ?
remove_ignored_domain(d) ==
    /\ ignored' = ignored \ {d}
    /\ response' = [op |-> "remove_ignored", req |-> d, http |-> 200,
                    domain |-> d, status |-> "removed"]
    /\ UNCHANGED <<pending_re_extract,
                   inflight, now, sessions, tabs, progress, started, pending_close,
                   undo_buffer, issued>>

AddIgnoredDomain == \E d \in DomainInputs : add_ignored_domain(d)
RemoveIgnoredDomain == \E d \in DomainInputs : remove_ignored_domain(d)

(***************************************************************************)
(* The clock.                                                              *)
(***************************************************************************)
Tick ==
    /\ now < MaxNow
    /\ now' = now + 1
    /\ response' = [op |-> "tick"]
    /\ UNCHANGED <<pending_re_extract,
                   inflight, sessions, tabs, ignored, progress, started, pending_close,
                   undo_buffer, issued>>

(***************************************************************************)
(* The capture specification: an empty database, captures, the ignored     *)
(* domains and the clock.                                                  *)
(***************************************************************************)
Init ==
    /\ now = 0
    /\ sessions = {}
    /\ tabs = <<>>
    /\ ignored = {}
    /\ progress = <<>>
    /\ started = <<>>
    /\ pending_close = <<>>
    /\ undo_buffer = <<>>
    /\ issued = 0
    /\ pending_re_extract = <<>>
    /\ inflight = <<>>
    /\ response = [op |-> "none"]

NextCapture == Capture \/ AddIgnoredDomain \/ RemoveIgnoredDomain \/ Tick

SpecCapture == Init /\ [][NextCapture]_vars


(***************************************************************************)
(* The pending-close queue (main.py:371-395, 508-515).                     *)
(***************************************************************************)
Range(q) == {q[i] : i \in 1..Len(q)}

\* mutant of Enqueue: the URL is appended without the membership test
Enqueue_always(q, url) == Append(q, url)

\* main.py:393-394, 513-514, 800-801  append unless already queued
Enqueue(q, url) == IF url \in Range(q) THEN q ELSE Append(q, url)

\* list.remove(url): the first occurrence goes
RECURSIVE RemoveFirst(_, _)
RemoveFirst(q, url) ==
    IF q = <<>> THEN <<>>
    ELSE IF Head(q) = url THEN Tail(q)
         ELSE <<Head(q)>> \o RemoveFirst(Tail(q), url)

\* mutant of Dequeue: the oldest URL goes, whichever was confirmed
Dequeue_head(q, url) == IF url \in Range(q) THEN Tail(q) ELSE q

\* main.py:382-383, 826-827  remove if queued
Dequeue(q, url) == IF url \in Range(q) THEN RemoveFirst(q, url) ELSE q

request_close(tab_id) ==
    /\ pending_close' =
          IF tab_id \in 1..Len(tabs)
          THEN Enqueue(pending_close, tabs[tab_id].url)
          ELSE pending_close
    /\ response' = [op |-> "request_close", status |-> "queued"]
    /\ UNCHANGED <<pending_re_extract,
                   inflight, now, sessions, tabs, ignored, progress, started,
                   undo_buffer, issued>>

confirm_close(url) ==
    /\ pending_close' = Dequeue(pending_close, url)
    /\ response' = [op |-> "confirm_close", status |-> "ok"]
    /\ UNCHANGED <<pending_re_extract,
                   inflight, now, sessions, tabs, ignored, progress, started,
                   undo_buffer, issued>>

(***************************************************************************)
(* Single triage (main.py:695-698, 834-887) and the star (main.py:663-667).*)
(***************************************************************************)
\* main.py:101-108  a TriageItem with what the request leaves out as None
Item(tab_id, category, starred) ==
    [tab_id |-> tab_id, category |-> category, project_id |-> None,
     user_note |-> None, tags |-> None, starred |-> starred,
     notion_target |-> None]

\* mutants of TriageRow: an absent note clears the stored note; a category
\* is stored without triaged_at
TriageRow_clearing(row, item, t) ==
    [row EXCEPT
        !.category   = IF item.category # None THEN item.category ELSE @,
        !.project_id = IF item.project_id # None THEN item.project_id ELSE @,
        !.user_note  = item.user_note,
        !.tags       = IF item.tags # None THEN item.tags ELSE @,
        !.starred    = IF item.starred # None
                       THEN (IF item.starred[1] THEN 1 ELSE 0) ELSE @,
        !.triaged_at = IF item.category # None THEN Some(t) ELSE @]
TriageRow_unstamped(row, item, t) ==
    [row EXCEPT
        !.category   = IF item.category # None THEN item.category ELSE @,
        !.project_id = IF item.project_id # None THEN item.project_id ELSE @,
        !.user_note  = IF item.user_note # None THEN item.user_note ELSE @,
        !.tags       = IF item.tags # None THEN item.tags ELSE @,
        !.starred    = IF item.starred # None
                       THEN (IF item.starred[1] THEN 1 ELSE 0) ELSE @]

\* main.py:843-865  the UPDATE of _triage_one: only the fields present,
\* triaged_at with the category
TriageRow(row, item, t) ==
    [row EXCEPT
        !.category   = IF item.category # None THEN item.category ELSE @,
        !.project_id = IF item.project_id # None THEN item.project_id ELSE @,
        !.user_note  = IF item.user_note # None THEN item.user_note ELSE @,
        !.tags       = IF item.tags # None THEN item.tags ELSE @,
        !.starred    = IF item.starred # None
                       THEN (IF item.starred[1] THEN 1 ELSE 0) ELSE @,
        !.triaged_at = IF item.category # None THEN Some(t) ELSE @]

\* main.py:834-865  the rows after _triage_one(item)
_triage_one(rows, item, t) ==
    IF item.tab_id \notin 1..Len(rows) THEN rows
    ELSE [rows EXCEPT ![item.tab_id] = TriageRow(@, item, t)]

\* main.py:838, 887  what _triage_one returns (no forwarding target given)
TriageResult(rows, item) ==
    IF item.tab_id \notin 1..Len(rows)
    THEN [tab_id |-> item.tab_id, error |-> "not found"]
    ELSE [tab_id |-> item.tab_id, status |-> "triaged", notion_url |-> None]

\* mutant of Route: a dismissed tab is forwarded like any other
Route_dismissed(item) ==
    IF item.notion_target = None THEN None
    ELSE CASE item.notion_target = Some("links") -> Some("create_link")
           [] item.notion_target = Some("parken") -> Some("create_backlog_card")
           [] item.notion_target = Some("project") ->
                 IF item.project_id # None THEN Some("append_to_project")
                 ELSE None
           [] item.notion_target = Some("todo-today") -> Some("create_task")
           [] item.notion_target = Some("todo-someday") -> Some("create_task")
           [] OTHER -> None

\* main.py:869-885  the forwarding operation _triage_one calls for an item,
\* None if it calls none
Route(item) ==
    IF item.notion_target = None \/ item.category = Some("dismiss") THEN None
    ELSE CASE item.notion_target = Some("links") -> Some("create_link")
           [] item.notion_target = Some("parken") -> Some("create_backlog_card")
           [] item.notion_target = Some("project") ->
                 IF item.project_id # None THEN Some("append_to_project")
                 ELSE None
           [] item.notion_target = Some("todo-today") -> Some("create_task")
           [] item.notion_target = Some("todo-someday") -> Some("create_task")
           [] OTHER -> None

\* notion_client.py:71-157  how a forwarding operation ends: the service
\* created the entry; the service answered with an error status and the
\* operation returns None (False); the request itself failed (service
\* unreachable, timeout) and httpx.post raises, nothing catching it
ForwardOutcomes == {"created", "rejected", "raised"}

\* main.py:837-838, 869  no operation is called for an unknown tab or an
\* item that is not routed
Outcomes(rows, item) ==
    IF item.tab_id \notin 1..Len(rows) \/ Route(item) = None THEN {"none"}
    ELSE ForwardOutcomes

\* main.py:838-887  the operations _triage_one calls
Calls(rows, item) ==
    IF item.tab_id \notin 1..Len(rows) \/ Route(item) = None THEN <<>>
    ELSE Route(item)

\* main.py:874-887  what _triage_one returns after a forwarding operation
\* that came back
ForwardedResult(rows, item, outcome) ==
    IF outcome = "created"
    THEN [TriageResult(rows, item) EXCEPT
             !.notion_url = IF Route(item) = Some("append_to_project")
                            THEN Some("appended")
                            ELSE Some("https://notion.so/page")]
    ELSE TriageResult(rows, item)

\* main.py:695-698  the row is updated and committed (835-865) before the
\* forwarding operation is called; an exception of the operation leaves
\* the handler as an error response
triage_single(item) ==
    /\ tabs' = _triage_one(tabs, item, now)
    /\ \E outcome \in Outcomes(tabs, item) :
          response' =
              IF outcome = "raised"
              THEN [op |-> "triage", status |-> 500,
                    calls |-> Calls(tabs, item)]
              ELSE [op |-> "triage", status |-> 200,
                    result |-> ForwardedResult(tabs, item, outcome),
                    calls |-> Calls(tabs, item)]
    /\ UNCHANGED <<pending_re_extract,
                   inflight, now, sessions, ignored, progress, started, pending_close,
                   undo_buffer, issued>>

toggle_star(tab_id, starred) ==
    /\ tabs' = IF tab_id \in 1..Len(tabs)
               THEN [tabs EXCEPT ![tab_id].starred = IF starred THEN 1 ELSE 0]
               ELSE tabs
    /\ response' = [op |-> "star", tab_id |-> tab_id, starred |-> starred]
    /\ UNCHANGED <<pending_re_extract,
                   inflight, now, sessions, ignored, progress, started, pending_close,
                   undo_buffer, issued>>

\* main.py:704-706  for item in req.items: results.append(_triage_one(item));
\* outs[i] is how the forwarding of item i ends; an exception ends the loop
RECURSIVE BulkLoop(_, _, _, _)
BulkLoop(items, outs, t, acc) ==
    IF items = <<>> \/ acc.raised THEN acc
    ELSE BulkLoop(Tail(items), Tail(outs), t,
             [rows    |-> _triage_one(acc.rows, Head(items), t),
              results |-> IF Head(outs) = "raised" THEN acc.results
                          ELSE Append(acc.results,
                                   ForwardedResult(acc.rows, Head(items),
                                                   Head(outs))),
              calls   |-> acc.calls \o Calls(acc.rows, Head(items)),
              raised  |-> Head(outs) = "raised"])

\* how the forwarding operations of a list of items can end
BulkOutcomes(rows, items) ==
    {outs \in [1..Len(items) -> ForwardOutcomes \cup {"none"}] :
        \A i \in 1..Len(items) : outs[i] \in Outcomes(rows, items[i])}

\* main.py:701-708
triage_bulk(items) ==
    \E outs \in BulkOutcomes(tabs, items) :
    \E r \in {BulkLoop(items, outs, now,
                       [rows |-> tabs, results |-> <<>>, calls |-> <<>>,
                        raised |-> FALSE])} :
        /\ tabs' = r.rows
        /\ response' = IF r.raised
                       THEN [op |-> "triage_bulk", status |-> 500,
                             calls |-> r.calls]
                       ELSE [op |-> "triage_bulk", status |-> 200,
                             results |-> r.results,
                             count |-> Len(r.results), calls |-> r.calls]
        /\ UNCHANGED <<pending_re_extract,
                       inflight, now, sessions, ignored, progress, started,
                       pending_close, undo_buffer, issued>>

(***************************************************************************)
(* Auto-triage, its preview and its undo (main.py:711-831).                *)
(***************************************************************************)
\* mutant of Untriaged: rows already triaged are selected too
Untriaged_all(rows) ==
    {i \in 1..Len(rows) : rows[i].suggested_category # None}

\* main.py:716, 748  WHERE triaged_at IS NULL AND suggested_category IS NOT NULL
Untriaged(rows) ==
    {i \in 1..Len(rows) :
        rows[i].triaged_at = None /\ rows[i].suggested_category # None}

\* a set of row ids as the list the SELECT returns, in rowid order
RECURSIVE Ascending(_)
Ascending(S) ==
    IF S = {} THEN <<>>
    ELSE LET m == CHOOSE x \in S : \A y \in S : x <= y
         IN  <<m>> \o Ascending(S \ {m})

CountCat(rows, ids, cat) ==
    Cardinality({i \in ids : rows[i].suggested_category = Some(cat)})

\* main.py:719-733
PreviewResult(rows) ==
    LET ids == Untriaged(rows)
    IN  [total |-> Cardinality(ids),
         counts |-> [c \in Categories |-> CountCat(rows, ids, c)],
         will_close |-> CountCat(rows, ids, "archive"),
         will_star |-> CountCat(rows, ids, "actionable"),
         tabs_by_category |->
             [c \in Categories |->
                 Ascending({i \in ids : rows[i].suggested_category = Some(c)})]]

\* mutant of triage_auto_preview: the preview stamps what it lists
triage_auto_preview_stamping ==
    /\ tabs' = [i \in 1..Len(tabs) |->
                   IF i \in Untriaged(tabs)
                   THEN [tabs[i] EXCEPT !.triaged_at = Some(now)]
                   ELSE tabs[i]]
    /\ response' = [op |-> "triage_auto_preview",
                    result |-> PreviewResult(tabs)]
    /\ UNCHANGED <<pending_re_extract,
                   inflight, now, sessions, ignored, progress, started, pending_close,
                   undo_buffer, issued>>

triage_auto_preview ==
    /\ response' = [op |-> "triage_auto_preview",
                    result |-> PreviewResult(tabs)]
    /\ UNCHANGED <<pending_re_extract,
                   inflight, now, sessions, tabs, ignored, progress, started,
                   pending_close, undo_buffer, issued>>

\* main.py:757-763  one entry of pre_state
Snapshot(rows, i) ==
    [tab_id |-> i, category |-> rows[i].category,
     starred |-> rows[i].starred, triaged_at |-> rows[i].triaged_at]

\* main.py:767-770  batches older than five minutes are deleted
PurgeOld(buf, t) ==
    [b \in {x \in DOMAIN buf : ~ (buf[x].timestamp < t - UNDO_TTL)} |-> buf[b]]

\* mutant of AutoItem: an actionable tab is not starred
AutoItem_unstarred(row, i) == Item(i, row.suggested_category, None)

\* main.py:777-782  the TriageItem derived from a selected row
AutoItem(row, i) ==
    Item(i, row.suggested_category,
         IF row.suggested_category = Some("actionable")
         THEN Some(TRUE) ELSE None)

\* main.py:792-793  _triage_one for every item, in order
RECURSIVE ApplyItems(_, _, _, _)
ApplyItems(rows, sel, ids, t) ==
    IF ids = <<>> THEN rows
    ELSE ApplyItems(_triage_one(rows, AutoItem(sel[Head(ids)], Head(ids)), t),
                    sel, Tail(ids), t)

\* main.py:796-801  the URLs of the archived tabs are queued
RECURSIVE EnqueueAll(_, _, _)
EnqueueAll(q, rows, ids) ==
    IF ids = <<>> THEN q
    ELSE EnqueueAll(Enqueue(q, rows[Head(ids)].url), rows, Tail(ids))

\* main.py:772-790  the counts of the response
AutoCounts(rows, ids) ==
    [saved    |-> Cardinality(ids) - CountCat(rows, ids, "archive"),
     starred  |-> CountCat(rows, ids, "actionable"),
     archived |-> CountCat(rows, ids, "archive")]

triage_auto ==
    LET ids == Untriaged(tabs)
        batch_id == issued + 1
        close_ids == Ascending({i \in ids :
                         tabs[i].suggested_category = Some("archive")})
        counts == AutoCounts(tabs, ids)
    IN  IF ids = {}
        THEN /\ response' = [op |-> "triage_auto", status |-> "auto_triaged",
                             total |-> 0, saved |-> 0, starred |-> 0,
                             archived |-> 0, close_requested |-> 0,
                             batch_id |-> None]
             /\ UNCHANGED <<pending_re_extract,
                            inflight, now, sessions, tabs, ignored, progress, started,
                            pending_close, undo_buffer, issued>>
        ELSE /\ issued < MaxBatches
             /\ issued' = batch_id
             /\ undo_buffer' =
                   PurgeOld(Extend(undo_buffer, batch_id,
                                [pre_state |->
                                     [k \in 1..Cardinality(ids) |->
                                         Snapshot(tabs, Ascending(ids)[k])],
                                 timestamp |-> now]),
                            now)
             /\ tabs' = ApplyItems(tabs, tabs, Ascending(ids), now)
             /\ pending_close' = EnqueueAll(pending_close, tabs, close_ids)
             /\ response' = [op |-> "triage_auto", status |-> "auto_triaged",
                             total |-> Cardinality(ids),
                             saved |-> counts.saved,
                             starred |-> counts.starred,
                             archived |-> counts.archived,
                             close_requested |-> Len(close_ids),
                             batch_id |-> Some(batch_id)]
             /\ UNCHANGED <<pending_re_extract,
                            inflight, now, sessions, ignored, progress, started>>

\* mutant of RestoreRow: triaged_at is left as the batch set it
RestoreRow_stamped(row, entry) ==
    [row EXCEPT !.category = entry.category,
                !.starred = entry.starred]

\* mutant of RestoreRow: the star is left as the batch set it
RestoreRow_nostar(row, entry) ==
    [row EXCEPT !.category = entry.category,
                !.triaged_at = entry.triaged_at]

\* main.py:820-823  UPDATE tabs SET category, starred, triaged_at
RestoreRow(row, entry) ==
    [row EXCEPT !.category = entry.category,
                !.starred = entry.starred,
                !.triaged_at = entry.triaged_at]

\* main.py:819-828  the loop over pre_state; acc = [rows, queue]
RECURSIVE UndoLoop(_, _)
UndoLoop(entries, acc) ==
    IF entries = <<>> THEN acc
    ELSE LET e == Head(entries)
         IN  UndoLoop(Tail(entries),
                 IF e.tab_id \in 1..Len(acc.rows)
                 THEN [rows  |-> [acc.rows EXCEPT
                                     ![e.tab_id] = RestoreRow(@, e)],
                       queue |-> Dequeue(acc.queue, acc.rows[e.tab_id].url)]
                 ELSE acc)

\* mutant of PopBatch: the batch is read but stays in the buffer
PopBatch_kept(buf, batch_id) == buf

\* main.py:815  _undo_buffer.pop(batch_id)
PopBatch(buf, batch_id) == [b \in DOMAIN buf \ {batch_id} |-> buf[b]]

\* req is None (no batch_id in the body) or Some(batch id)
triage_auto_undo(req) ==
    IF req = None \/ req[1] \notin DOMAIN undo_buffer
    THEN /\ response' = [op |-> "triage_auto_undo", req |-> req,
                         http |-> 404]
         /\ UNCHANGED <<pending_re_extract,
                        inflight, now, sessions, tabs, ignored, progress, started,
                        pending_close, undo_buffer, issued>>
    ELSE \E r \in {UndoLoop(undo_buffer[req[1]].pre_state,
                            [rows |-> tabs, queue |-> pending_close])} :
         /\ undo_buffer' = PopBatch(undo_buffer, req[1])
         /\ tabs' = r.rows
         /\ pending_close' = r.queue
         /\ response' = [op |-> "triage_auto_undo", req |-> req,
                         http |-> 200, status |-> "undone",
                         restored |-> Len(undo_buffer[req[1]].pre_state)]
         /\ UNCHANGED <<pending_re_extract,
                        inflight, now, sessions, ignored, progress, started, issued>>

(***************************************************************************)
(* The triage specification.  It starts from a database that captures and  *)
(* their enrichment have filled (as tests/test_api.py _seed_tab does): up  *)
(* to MaxSeed rows, one session each, captured a day apart, untriaged and  *)
(* unstarred, each with a suggested category or none yet.  Human decisions *)
(* and the extension's confirmations of closed pages interleave with      *)
(* auto-triage, its preview and its undo.                                  *)
(***************************************************************************)
SeedUrls == {UrlA1, UrlA2, UrlWwwB}
SeedSuggested == {None, Some("read-later"), Some("actionable"), Some("archive")}

\* row i has a URL of its own, or the last row has the URL of the first
SeedUrl(i, n, dup) ==
    IF dup /\ i = n /\ n > 1 THEN UrlA1
    ELSE CASE i % 3 = 1 -> UrlA1
           [] i % 3 = 2 -> UrlA2
           [] i % 3 = 0 -> UrlWwwB

SeedRow(i, n, url, suggested) ==
    [NewTab(i, url, 0 - Day * (n - i)) EXCEPT
        !.summary = IF suggested = None THEN None ELSE Some("summary"),
        !.suggested_category = suggested]

InitTriage ==
    /\ now = 0
    /\ \E n \in 1..MaxSeed :
          /\ sessions = 1..n
          /\ \E dup \in BOOLEAN, c \in [1..n -> SeedSuggested] :
                tabs = [i \in 1..n |-> SeedRow(i, n, SeedUrl(i, n, dup), c[i])]
    /\ ignored = {}
    /\ progress = <<>>
    /\ started = <<>>
    /\ pending_close = <<>>
    /\ undo_buffer = <<>>
    /\ issued = 0
    /\ pending_re_extract = <<>>
    /\ inflight = <<>>
    /\ response = [op |-> "none"]

TabIds == 1..(MaxSeed + 1)

\* a human decision for any row (or an unknown id), or a star for the
\* first row set through the triage endpoint
TriageItems ==
    {Item(i, Some("reference"), None) : i \in TabIds}
        \cup {Item(1, None, Some(TRUE))}

TriageSingle == \E item \in TriageItems : triage_single(item)

\* the lists a client posts to the bulk endpoint: the first two rows, or
\* the second row and an unknown id
BulkRequests ==
    {<<Item(1, Some("reference"), None), Item(2, Some("reference"), None)>>,
     <<Item(2, Some("reference"), None),
       Item(MaxSeed + 1, Some("reference"), None)>>}
TriageBulk == \E items \in BulkRequests : triage_bulk(items)
ToggleStar == \E i \in TabIds, st \in BOOLEAN : toggle_star(i, st)
RequestClose == \E i \in TabIds : request_close(i)
ConfirmClose == \E u \in SeedUrls : confirm_close(u)
TriageAutoUndo ==
    \E req \in {None} \cup {Some(b) : b \in 1..(MaxBatches + 1)} :
        triage_auto_undo(req)

NextTriage ==
    \/ triage_auto
    \/ TriageAutoUndo
    \/ triage_auto_preview
    \/ TriageSingle
    \/ TriageBulk
    \/ ConfirmClose

SpecTriage == InitTriage /\ [][NextTriage]_vars

(***************************************************************************)
(* The undo-expiry specification: auto-triage and undo while the clock     *)
(* runs.                                                                   *)
(***************************************************************************)
NextUndoExpiry == triage_auto \/ TriageAutoUndo \/ Tick

SpecUndoExpiry == InitTriage /\ [][NextUndoExpiry]_vars

(***************************************************************************)
(* Claims about capture.  After a capture call the rows it created are the *)
(* rows of the session it reports; all other rows were stored before.      *)
(***************************************************************************)
Captured == response.op = "capture"
CreatedRows ==
    {i \in 1..Len(tabs) : Some(tabs[i].session_id) = response.session_id}
StoredRows == (1..Len(tabs)) \ CreatedRows
Submitted == {response.req[k] : k \in 1..Len(response.req)}

\* a row stored before the call has this URL and was captured less than
\* 24 hours before the call
StoredWithinDay(u) ==
    \E i \in StoredRows : tabs[i].url = u /\ now - tabs[i].captured_at < Day

\* the filters other than the de-duplication inside the submission list
OtherwiseFiltered(u) ==
    IsOwnPage(u) \/ IsIgnoredDomain(ignored, u) \/ StoredWithinDay(u)

\* C1: no row has the URL of an earlier row captured less than 24 hours
\* before it; a submission whose URL is stored with a capture time within
\* the last 24 hours creates no row and is counted in `skipped`.
C1_NoRecentDuplicate ==
    /\ \A i, j \in 1..Len(tabs) :
          (i < j /\ tabs[i].url = tabs[j].url)
              => tabs[j].captured_at - tabs[i].captured_at >= Day
    /\ Captured =>
          /\ \A u \in Submitted :
                StoredWithinDay(u) => ~ \E j \in CreatedRows : tabs[j].url = u
          /\ response.skipped >=
                Cardinality({k \in 1..Len(response.req) :
                                StoredWithinDay(response.req[k])})

\* a capture skipped a URL stored one tick earlier, and some URL is stored
\* twice
C1_Witness ==
    /\ Captured
    /\ response.skipped >= 1
    /\ \E u \in Submitted : \E i \in StoredRows :
          tabs[i].url = u /\ tabs[i].captured_at = now - 1
    /\ \E i, j \in 1..Len(tabs) : i < j /\ tabs[i].url = tabs[j].url

\* the URLs of the submission list that no other filter removes, in the
\* order of their first occurrence
RECURSIVE FirstOccurrences(_, _)
FirstOccurrences(req, seen) ==
    IF req = <<>> THEN <<>>
    ELSE IF Head(req) \in seen \/ OtherwiseFiltered(Head(req))
         THEN FirstOccurrences(Tail(req), seen)
         ELSE <<Head(req)>> \o FirstOccurrences(Tail(req), seen \cup {Head(req)})

CreatedUrls ==
    LET first == Len(tabs) - Cardinality(CreatedRows)
    IN  [n \in 1..Cardinality(CreatedRows) |-> tabs[first + n].url]

\* C2: a URL that occurs k >= 1 times in the submission list and is removed
\* by no other filter gets exactly one row, at the place of its first
\* occurrence, and k - 1 skips: the rows created are the first occurrences
\* in order, and skipped counts every other submission.
C2_IntraBatchDedup ==
    Captured =>
        /\ \A u \in Submitted :
              ~ OtherwiseFiltered(u) =>
                  Cardinality({j \in CreatedRows : tabs[j].url = u}) = 1
        /\ CreatedUrls = FirstOccurrences(response.req, {})
        /\ response.tab_count = Cardinality(CreatedRows)
        /\ response.skipped = Len(response.req) - response.tab_count

\* the same URL twice: tab_count = 1, skipped = 1
C2_Witness ==
    /\ Captured
    /\ Len(response.req) = 2
    /\ response.req[1] = response.req[2]
    /\ response.tab_count = 1
    /\ response.skipped = 1

\* C3: a submitted URL (no own page, not ignored) whose stored rows were all
\* captured more than 24 hours ago gets a new row; a URL with a row captured
\* at this very time by an earlier call gets none.
C3_WindowExpires ==
    Captured =>
        \A u \in Submitted :
            ~ IsOwnPage(u) /\ ~ IsIgnoredDomain(ignored, u) =>
                /\ (\A i \in StoredRows :
                       tabs[i].url = u => now - tabs[i].captured_at > Day)
                       => \E j \in CreatedRows : tabs[j].url = u
                /\ (\E i \in StoredRows :
                       tabs[i].url = u /\ tabs[i].captured_at = now)
                       => ~ \E j \in CreatedRows : tabs[j].url = u

\* a URL stored more than 24 hours ago was captured again
C3_Witness ==
    /\ Captured
    /\ \E i \in StoredRows : \E j \in CreatedRows :
          tabs[i].url = tabs[j].url /\ now - tabs[i].captured_at > Day

\* every submission of the request is removed by a filter, judged before
\* the call
AllFilteredBefore(req) ==
    \A k \in 1..Len(req) :
        \/ IsOwnPage(req[k])
        \/ IsIgnoredDomain(ignored, req[k])
        \/ \E i \in 1..Len(tabs) :
              tabs[i].url = req[k] /\ now - tabs[i].captured_at < Day

\* C4: a capture call in which every submission is filtered out (the empty
\* list included) leaves sessions and tabs as they were, reports
\* all_duplicates with session id null and the skip count, creates no
\* ProgressRecord and starts no background thread.
C4_AllFilteredNoTrace ==
    [][ (response'.op = "capture" /\ AllFilteredBefore(response'.req)) =>
            /\ sessions' = sessions
            /\ tabs' = tabs
            /\ progress' = progress
            /\ started' = started
            /\ response'.status = "all_duplicates"
            /\ response'.session_id = None
            /\ response'.tab_count = 0
            /\ response'.skipped = Len(response'.req) ]_vars

\* an all-duplicates answer to a non-empty list with sessions in the store
C4_Witness ==
    /\ Captured
    /\ response.status = "all_duplicates"
    /\ response.session_id = None
    /\ Len(response.req) = 2
    /\ sessions # {}
    /\ \E u \in Submitted : ~ IsOwnPage(u) /\ ~ IsIgnoredDomain(ignored, u)


(***************************************************************************)
(* Claims about auto-triage, undo and preview, as properties of the steps  *)
(* of those handlers.                                                      *)
(***************************************************************************)
AutoStep == response'.op = "triage_auto"
UndoStep == response'.op = "triage_auto_undo"
PreviewStep == response'.op = "triage_auto_preview"

\* the rows auto-triage has to select, judged before the step
Eligible ==
    {i \in 1..Len(tabs) :
        tabs[i].triaged_at = None /\ tabs[i].suggested_category # None}

Queued(q, url) == \E k \in 1..Len(q) : q[k] = url

\* C5: the snapshot a batch stores holds, for every row the batch changes,
\* the category, star and triaged_at the row had just before the batch; a
\* stored snapshot never changes; a successful undo leaves every row of the
\* snapshot with exactly the snapshot's category, star and triaged_at, and
\* none of their URLs queued for closing.
C5_UndoRestores ==
    [][ /\ (AutoStep /\ response'.batch_id # None) =>
              LET pre == undo_buffer'[response'.batch_id[1]].pre_state
              IN  /\ \A i \in 1..Len(tabs) :
                        tabs'[i] # tabs[i]
                            => \E k \in 1..Len(pre) : pre[k].tab_id = i
                  /\ \A k \in 1..Len(pre) :
                        /\ pre[k].category = tabs[pre[k].tab_id].category
                        /\ pre[k].starred = tabs[pre[k].tab_id].starred
                        /\ pre[k].triaged_at = tabs[pre[k].tab_id].triaged_at
        /\ \A b \in DOMAIN undo_buffer \cap DOMAIN undo_buffer' :
              undo_buffer'[b] = undo_buffer[b]
        /\ (UndoStep /\ response'.http = 200) =>
              LET pre == undo_buffer[response'.req[1]].pre_state
              IN  \A k \in 1..Len(pre) :
                    /\ tabs'[pre[k].tab_id].category = pre[k].category
                    /\ tabs'[pre[k].tab_id].starred = pre[k].starred
                    /\ tabs'[pre[k].tab_id].triaged_at = pre[k].triaged_at
                    /\ ~ Queued(pending_close', tabs'[pre[k].tab_id].url)
      ]_vars

\* an undo restored two rows: an actionable row the batch had starred is
\* unstarred and untriaged again, and the URL of an archive row the batch
\* had queued is queued no more
C5_Witness ==
    /\ response.op = "triage_auto_undo"
    /\ response.http = 200
    /\ response.restored >= 2
    /\ \E i \in 1..Len(tabs) :
          /\ tabs[i].triaged_at = None
          /\ tabs[i].category = None
          /\ tabs[i].starred = 0
          /\ tabs[i].suggested_category = Some("actionable")
    /\ \E i \in 1..Len(tabs) :
          /\ tabs[i].suggested_category = Some("archive")
          /\ tabs[i].triaged_at = None
    /\ pending_close = <<>>

\* C6: a batch id is single-use: a successful undo removes its batch, a
\* batch id that was issued and is gone never comes back, and an undo with
\* a batch id that is not in the buffer (used, never issued, or missing)
\* fails with 404 and changes no row, no queue and no batch.
C6_UndoSingleUse ==
    [][ /\ (UndoStep /\ response'.http = 200) =>
              response'.req[1] \notin DOMAIN undo_buffer'
        /\ \A b \in 1..issued :
              b \notin DOMAIN undo_buffer => b \notin DOMAIN undo_buffer'
        /\ \A b \in DOMAIN undo_buffer' : b <= issued'
        /\ (UndoStep /\ (response'.req = None
                          \/ response'.req[1] \notin DOMAIN undo_buffer)) =>
              /\ response'.http = 404
              /\ tabs' = tabs
              /\ pending_close' = pending_close
              /\ undo_buffer' = undo_buffer
      ]_vars

\* a second undo of a batch that was issued and undone is refused while
\* the rows it had changed are untriaged again
C6_Witness ==
    /\ response.op = "triage_auto_undo"
    /\ response.http = 404
    /\ response.req # None
    /\ response.req[1] <= issued
    /\ undo_buffer = <<>>
    /\ \E i \in 1..Len(tabs) :
          tabs[i].suggested_category # None /\ tabs[i].triaged_at = None

\* C7: an undo invoked more than five minutes after its batch was created
\* fails with 404 and restores nothing.
C7_UndoExpires ==
    [][ (/\ UndoStep
         /\ response'.req # None
         /\ response'.req[1] \in DOMAIN undo_buffer
         /\ now - undo_buffer[response'.req[1]].timestamp > UNDO_TTL)
            => (response'.http = 404 /\ tabs' = tabs) ]_vars

\* C8: auto-triage gives every eligible row its suggested category and a
\* triaged_at; an `actionable` row is starred; the URL of an `archive` row
\* is queued for closing; archived counts the `archive` rows, starred the
\* `actionable` rows, saved every eligible row that is not `archive`.
C8_AutoTriageApplies ==
    [][ AutoStep =>
          /\ \A i \in Eligible :
                /\ tabs'[i].category = tabs[i].suggested_category
                /\ tabs'[i].triaged_at # None
                /\ tabs[i].suggested_category = Some("actionable")
                      => tabs'[i].starred = 1
                /\ tabs[i].suggested_category = Some("archive")
                      => Queued(pending_close', tabs[i].url)
          /\ response'.archived =
                Cardinality({i \in Eligible :
                    tabs[i].suggested_category = Some("archive")})
          /\ response'.starred =
                Cardinality({i \in Eligible :
                    tabs[i].suggested_category = Some("actionable")})
          /\ response'.saved =
                Cardinality({i \in Eligible :
                    tabs[i].suggested_category # Some("archive")})
          /\ response'.close_requested = response'.archived
      ]_vars

\* an auto-triage of an actionable and an archive row
C8_Witness ==
    /\ response.op = "triage_auto"
    /\ response.saved = 1
    /\ response.starred = 1
    /\ response.archived = 1
    /\ \E i \in 1..Len(tabs) :
          /\ tabs[i].category = Some("archive")
          /\ Queued(pending_close, tabs[i].url)
    /\ \E i \in 1..Len(tabs) :
          tabs[i].category = Some("actionable") /\ tabs[i].starred = 1

\* C9: auto-triage changes no row that is already triaged or has no
\* suggested category; the batch it stores lists exactly the eligible rows
\* and total is their number; with no eligible row nothing changes.
C9_AutoTriageFrame ==
    [][ AutoStep =>
          /\ Len(tabs') = Len(tabs)
          /\ \A i \in (1..Len(tabs)) \ Eligible : tabs'[i] = tabs[i]
          /\ response'.total = Cardinality(Eligible)
          /\ IF Eligible = {}
             THEN /\ response'.batch_id = None
                  /\ undo_buffer' = undo_buffer
                  /\ pending_close' = pending_close
             ELSE /\ response'.batch_id # None
                  /\ {undo_buffer'[response'.batch_id[1]].pre_state[k].tab_id :
                        k \in 1..Len(undo_buffer'[response'.batch_id[1]].pre_state)}
                        = Eligible
                  /\ Len(undo_buffer'[response'.batch_id[1]].pre_state)
                        = Cardinality(Eligible)
      ]_vars

\* an auto-triage took one row and left a row a human had triaged
C9_Witness ==
    /\ response.op = "triage_auto"
    /\ response.total = 1
    /\ Len(tabs) = 2
    /\ \E i \in 1..Len(tabs) :
          /\ tabs[i].category = Some("reference")
          /\ tabs[i].suggested_category = Some("archive")
          /\ ~ Queued(pending_close, tabs[i].url)

\* C10: a preview changes no row, no batch, no queue and nothing else of
\* the store.
C10_PreviewReadOnly ==
    [][ PreviewStep =>
          /\ tabs' = tabs
          /\ undo_buffer' = undo_buffer
          /\ pending_close' = pending_close
          /\ sessions' = sessions
          /\ issued' = issued
      ]_vars

\* a preview listed an archive row that is still untriaged
C10_Witness ==
    /\ response.op = "triage_auto_preview"
    /\ response.result.total >= 1
    /\ response.result.will_close = 1
    /\ \E i \in 1..Len(tabs) :
          /\ tabs[i].suggested_category = Some("archive")
          /\ tabs[i].triaged_at = None



(***************************************************************************)
(* The decisions specification: a small seeded database on which single   *)
(* decisions with any combination of fields, and the star, change the      *)
(* first row.                                                              *)
(***************************************************************************)
\* main.py:101-108  a TriageItem with every updatable field given or left out
TriageItem(tab_id, category, project_id, user_note, tags, starred) ==
    [tab_id |-> tab_id, category |-> category, project_id |-> project_id,
     user_note |-> user_note, tags |-> tags, starred |-> starred,
     notion_target |-> None]

\* the decisions a client posts for the first row, each field present or
\* absent, and one decision for an unknown id
DecisionItems ==
    {TriageItem(1, c, p, u, g, st) :
        c \in {None, Some("dismiss")},
        p \in {None, Some("p1")},
        u \in {None, Some("note")},
        g \in {None, Some(<<"urgent">>)},
        st \in {None, Some(TRUE), Some(FALSE)}}
      \cup {TriageItem(MaxSeed + 1, Some("dismiss"), Some("p1"), Some("note"),
                       Some(<<"urgent">>), Some(TRUE))}

TriageDecision == \E item \in DecisionItems : triage_single(item)
StarFirst == \E st \in BOOLEAN : toggle_star(1, st)

NextDecisions == TriageDecision \/ StarFirst

\* a seeded database of one or two rows
InitDecisions == InitTriage /\ Len(tabs) <= 2

SpecDecisions == InitDecisions /\ [][NextDecisions]_vars


(***************************************************************************)
(* Claims about single decisions.                                          *)
(***************************************************************************)
\* what a decision has to leave in the store: in the row it names every
\* field of the request is stored if present and kept if absent,
\* triaged_at is set exactly when a category is present; nothing else of
\* the table changes
DecisionApplied(item) ==
    /\ Len(tabs') = Len(tabs)
    /\ \A i \in 1..Len(tabs) : i # item.tab_id => tabs'[i] = tabs[i]
    /\ item.tab_id \in 1..Len(tabs) =>
          LET old == tabs[item.tab_id]
              new == tabs'[item.tab_id]
          IN  /\ new.category =
                    IF item.category # None THEN item.category ELSE old.category
              /\ new.project_id =
                    IF item.project_id # None THEN item.project_id
                    ELSE old.project_id
              /\ new.user_note =
                    IF item.user_note # None THEN item.user_note
                    ELSE old.user_note
              /\ new.tags = IF item.tags # None THEN item.tags ELSE old.tags
              /\ new.starred =
                    IF item.starred = Some(TRUE) THEN 1
                    ELSE IF item.starred = Some(FALSE) THEN 0
                    ELSE old.starred
              /\ IF item.category # None
                 THEN new.triaged_at # None
                 ELSE new.triaged_at = old.triaged_at
              /\ new.url = old.url
              /\ new.session_id = old.session_id
              /\ new.captured_at = old.captured_at
              /\ new.summary = old.summary
              /\ new.suggested_category = old.suggested_category

\* C11: a single decision changes category, project, user_note, tags and
\* starred only where the request carries them, keeps every absent field,
\* and sets triaged_at whenever a category is present (dismiss included).
C11_PartialUpdate ==
    [][ \A item \in DecisionItems :
            (response'.op = "triage" /\ triage_single(item))
                => DecisionApplied(item) ]_vars

\* a dismissed first row that keeps a note and a star from earlier
\* requests, with no project and no tags ever given
C11_Witness ==
    /\ response.op = "triage"
    /\ tabs[1].category = Some("dismiss")
    /\ tabs[1].triaged_at # None
    /\ tabs[1].user_note = Some("note")
    /\ tabs[1].starred = 1
    /\ tabs[1].project_id = None
    /\ tabs[1].tags = None

\* C12 as stated: a row has triaged_at exactly if it has a category, and a
\* row that has been given a category once has triaged_at ever after.
C12_AssignedOnceStaysTriaged ==
    [][ /\ \A i \in 1..Len(tabs') :
              tabs'[i].triaged_at # None => tabs'[i].category # None
        /\ \A i \in 1..Len(tabs) :
              tabs[i].category # None => tabs'[i].triaged_at # None
      ]_vars

\* C12, amended: in every reachable state a row has triaged_at exactly if
\* it has a category now; an undo takes both away again.
C12_TriagedIffCategory ==
    \A i \in 1..Len(tabs) :
        tabs[i].triaged_at # None <=> tabs[i].category # None

\* after an undo one row is untriaged again and without category, another
\* row keeps the category and the triaged_at of a human decision
C12_Witness ==
    /\ response.op = "triage_auto_undo"
    /\ response.http = 200
    /\ \E i \in 1..Len(tabs) :
          /\ tabs[i].suggested_category # None
          /\ tabs[i].category = None
          /\ tabs[i].triaged_at = None
    /\ \E i \in 1..Len(tabs) :
          tabs[i].category = Some("reference") /\ tabs[i].triaged_at # None


(***************************************************************************)
(* Claims about the ignored domains.                                       *)
(***************************************************************************)
\* a hostname without its leading "www."
WwwStripped(h) ==
    IF Len(h) >= 4 /\ SubSeq(h, 1, 4) = WWW_DOT THEN SubSeq(h, 5, Len(h)) ELSE h

\* the URL has a hostname whose www-stripped form is an ignored domain
HostIgnored(u) ==
    /\ UrlParts(u).host # None
    /\ WwwStripped(UrlParts(u).host[1]) \in ignored

AddStep == response'.op = "add_ignored"
RemoveStep == response'.op = "remove_ignored"

\* the domain without surrounding blanks, lower-cased, www-stripped
Normalized(d) == WwwStripped(Lower(Strip(d)))

C15_AddRemoveRoundTrip ==
    [][ (/\ response.op = "add_ignored"
         /\ response.http = 200
         /\ RemoveStep
         /\ response'.req = response.req)
            => response.domain \notin ignored' ]_vars


(***************************************************************************)
(* The close-queue specification: a small seeded database on which close   *)
(* requests for one row or for a list of rows, the extension's             *)
(* confirmations, auto-triage and its undo interleave.  FastAPI serves     *)
(* each `def` handler on a worker thread, so a bulk close request that is  *)
(* between two SELECTs of its loop (main.py:390-394) overlaps with other   *)
(* requests; inflight holds these requests with the ids still to do.  The  *)
(* membership test and the append of main.py:393-394 are one step: the     *)
(* interpreter does not switch threads between the two list operations.    *)
(***************************************************************************)
MaxThreads == 2      \* most bulk close requests in their loop at a time

\* the id lists a client posts
CloseBulkRequests == {<<2, MaxSeed + 1, 1>>}

\* main.py:386-389  the request arrives, the connection is opened
request_close_bulk_begin(tab_ids) ==
    /\ Len(inflight) < MaxThreads
    /\ inflight' = Append(inflight, [op |-> "request_close_bulk",
                                     tab_ids |-> tab_ids, i |-> 1])
    /\ response' = [op |-> "request_close_bulk_begin"]
    /\ UNCHANGED <<pending_re_extract,
                   now, sessions, tabs, ignored, progress, started,
                   pending_close, undo_buffer, issued>>

\* main.py:390-395  one turn of the loop of thread k: SELECT url, append
\* unless queued; after the last turn the handler returns
request_close_bulk_step(k) ==
    LET th == inflight[k]
        rest == [j \in 1..(Len(inflight) - 1) |->
                    IF j < k THEN inflight[j] ELSE inflight[j + 1]]
    IN  IF th.i > Len(th.tab_ids)
        THEN /\ inflight' = rest
             /\ response' = [op |-> "request_close_bulk", status |-> "queued",
                             count |-> Len(th.tab_ids)]
             /\ UNCHANGED <<pending_re_extract,
                            now, sessions, tabs, ignored, progress, started,
                            pending_close, undo_buffer, issued>>
        ELSE /\ pending_close' =
                   IF th.tab_ids[th.i] \in 1..Len(tabs)
                   THEN Enqueue(pending_close, tabs[th.tab_ids[th.i]].url)
                   ELSE pending_close
             /\ inflight' = [inflight EXCEPT ![k].i = @ + 1]
             /\ response' = [op |-> "request_close_bulk_step"]
             /\ UNCHANGED <<pending_re_extract,
                            now, sessions, tabs, ignored, progress, started,
                            undo_buffer, issued>>

RequestCloseBulkBegin ==
    \E ids \in CloseBulkRequests : request_close_bulk_begin(ids)
RequestCloseBulkStep ==
    \E k \in 1..Len(inflight) : request_close_bulk_step(k)

NextClose ==
    \/ RequestClose
    \/ RequestCloseBulkBegin
    \/ RequestCloseBulkStep
    \/ ConfirmClose
    \/ triage_auto
    \/ TriageAutoUndo

\* a seeded database of two rows whose suggestion, if any, is `archive`
InitClose ==
    /\ InitTriage
    /\ Len(tabs) = 2
    /\ \A i \in 1..Len(tabs) :
          tabs[i].suggested_category \in {None, Some("archive")}

SpecClose == InitClose /\ [][NextClose]_vars

(***************************************************************************)
(* Claims about the close queue.                                           *)
(***************************************************************************)
NoDuplicates(q) == \A i, j \in 1..Len(q) : i # j => q[i] # q[j]

\* the steps that enqueue
EnqueueStep ==
    response'.op \in {"request_close", "request_close_bulk_step", "triage_auto"}

\* C16: the pending-close list never holds the same URL twice, whatever
\* the interleaving of close requests, bulk close requests, auto-triage,
\* confirmations and undos; a step that enqueues keeps every pending URL
\* at its place and appends only URLs that were not pending.
C16_NoDuplicatePending ==
    [][ /\ NoDuplicates(pending_close')
        /\ EnqueueStep =>
              /\ Len(pending_close') >= Len(pending_close)
              /\ SubSeq(pending_close', 1, Len(pending_close)) = pending_close
      ]_vars

\* two bulk requests for the same rows are in their loops, both past the
\* first row, whose URL is pending once
C16_Witness ==
    /\ Len(inflight) = 2
    /\ inflight[1].tab_ids = inflight[2].tab_ids
    /\ inflight[1].i >= 2
    /\ inflight[2].i >= 2
    /\ response.op = "request_close_bulk_step"
    /\ Len(pending_close) = 1
    /\ tabs[2].url = pending_close[1]

\* the queue without a URL, order kept
Without(q, url) == SelectSeq(q, LAMBDA x : x # url)

\* C17: a confirmation takes the confirmed URL out of the pending-close
\* list and leaves every other URL in its place; a confirmation of a URL
\* that is not pending changes nothing; rows, batches and the rest of the
\* store are never touched.
C17_ConfirmRemovesExactly ==
    [][ \A u \in SeedUrls :
          (response'.op = "confirm_close" /\ confirm_close(u)) =>
              /\ ~ Queued(pending_close', u)
              /\ pending_close' = Without(pending_close, u)
              /\ ~ Queued(pending_close, u) => pending_close' = pending_close
              /\ tabs' = tabs
              /\ undo_buffer' = undo_buffer ]_vars

\* a confirmation left one URL pending
C17_Witness ==
    /\ response.op = "confirm_close"
    /\ Len(pending_close) = 1
    /\ \E i \in 1..Len(tabs) : tabs[i].url \notin Range(pending_close)

(***************************************************************************)
(* Enrichment: the background thread of a session (main.py:223-283).  The  *)
(* thread summarizes the tabs handed to it one by one, then clusters the   *)
(* tabs of its session.  Each call of the classifier is a point where the  *)
(* other threads of the server run, so every loop iteration and the two    *)
(* halves of the clustering are steps of their own.                        *)
(***************************************************************************)
\* summarizer.py:47-65, 141-156  how a call of the classifier ends: an
\* answer in the format asked for; an answer without a SUMMARY line and
\* with a category that is none of the four; a non-zero exit code; a
\* timeout; the CLI missing
ClassifierOutcomes ==
    {[kind |-> "answer", summary |-> "summary", category |-> "archive",
      tags |-> <<"ki">>],
     [kind |-> "answer", summary |-> "", category |-> "misc",
      tags |-> <<>>],
     [kind |-> "failed"], [kind |-> "timeout"], [kind |-> "missing"]}

\* mutant of _parse_response: the category is taken as the classifier
\* wrote it
_parse_response_unchecked(o) ==
    [summary |-> IF o.summary = "" THEN "raw answer" ELSE o.summary,
     suggested_category |-> o.category,
     tags |-> o.tags]

\* summarizer.py:68-87  the category is kept only if it is one of the
\* four, else read-later; without a SUMMARY line the raw text is the
\* summary
_parse_response(o) ==
    [summary |-> IF o.summary = "" THEN "raw answer" ELSE o.summary,
     suggested_category |->
         IF o.category \in {"read-later", "reference", "actionable", "archive"}
         THEN o.category ELSE "read-later",
     tags |-> o.tags]

\* summarizer.py:18-65, 106-156  summarize_tab: with content the full
\* prompt, whose failures leave one placeholder per reason; without
\* content the title-only prompt, whose failures all leave the same one
summarize_tab(content, o) ==
    IF o.kind = "answer" THEN _parse_response(o)
    ELSE IF content = None
         THEN [summary |-> "[Kein ausreichender Inhalt extrahiert für: title]",
               suggested_category |-> "archive", tags |-> <<>>]
         ELSE [summary |->
                   CASE o.kind = "failed" ->
                            "[Zusammenfassung fehlgeschlagen: title]"
                     [] o.kind = "timeout" -> "[Timeout: title]"
                     [] o.kind = "missing" -> "[Claude CLI nicht gefunden]",
               suggested_category |-> "read-later", tags |-> <<>>]

\* mutant of SummarizeRow: the classifier's tags replace the row's
SummarizeRow_overwriting(row, result) ==
    [row EXCEPT
        !.summary = Some(result.summary),
        !.suggested_category = Some(result.suggested_category),
        !.tags = IF result.tags = <<>> THEN None ELSE Some(result.tags)]

\* main.py:233-237  tags_json is NULL for an empty tag list, and the UPDATE
\* keeps tags the row already has: tags = COALESCE(tags, ?)
SummarizeRow(row, result) ==
    [row EXCEPT
        !.summary = Some(result.summary),
        !.suggested_category = Some(result.suggested_category),
        !.tags = IF @ # None THEN @
                 ELSE IF result.tags = <<>> THEN None ELSE Some(result.tags)]

\* mutant of ProgressAfter: the count runs one ahead
ProgressAfter_ahead(prog, i) == [prog EXCEPT !.completed = i + 1]

\* main.py:245-246  progress["completed"] = i + 1, i counting from 0 (the
\* model's i counts from 1)
ProgressAfter(prog, i) == [prog EXCEPT !.completed = i]

\* main.py:228-241  one iteration of the loop over tab_ids
summarize_step(s) ==
    LET th == started[s]
    IN  /\ th.pc = "summarize"
        /\ th.i <= Len(th.tab_ids)
        /\ IF th.tab_ids[th.i] \in 1..Len(tabs)
           THEN /\ \E o \in ClassifierOutcomes :
                      tabs' = [tabs EXCEPT ![th.tab_ids[th.i]] =
                                  SummarizeRow(@, summarize_tab(@.content, o))]
                /\ progress' = [progress EXCEPT
                                   ![s] = ProgressAfter(@, th.i)]
           ELSE UNCHANGED <<tabs, progress>>
        /\ started' = [started EXCEPT ![s].i = @ + 1]
        /\ UNCHANGED <<pending_re_extract,
                       now, sessions, ignored, pending_close, undo_buffer,
                       issued, inflight, response>>

\* mutant of SummarizeDone: the loop is left after its first iteration
SummarizeDone_early(th) == th.i > 1

\* main.py:229  the loop over tab_ids is exhausted
SummarizeDone(th) == th.i > Len(th.tab_ids)

\* main.py:243-246  after the loop: phase "clustering"
begin_clustering(s) ==
    LET th == started[s]
    IN  /\ th.pc = "summarize"
        /\ SummarizeDone(th)
        /\ progress' = [progress EXCEPT ![s].phase = "clustering"]
        /\ started' = [started EXCEPT ![s].pc = "cluster"]
        /\ UNCHANGED <<pending_re_extract,
                       now, sessions, tabs, ignored, pending_close,
                       undo_buffer, issued, inflight, response>>

\* main.py:249-253  SELECT ... FROM tabs WHERE session_id = ?
SessionTabs(rows, s) == {i \in 1..Len(rows) : rows[i].session_id = s}

\* summarizer.py:186-189  one element of the JSON array the classifier is
\* asked for
Assignment(tab_id, cluster_id, suggested_project_id) ==
    [tab_id |-> tab_id, cluster_id |-> cluster_id,
     cluster_label |-> "Label",
     suggested_project_id |-> suggested_project_id]

\* summarizer.py:200-214, 282-290  what the classifier can answer: nothing
\* usable, or an array whose tab ids are whatever the classifier wrote,
\* ids of other sessions and ids of no tab included
ClusterResponses ==
    {<<>>}
    \cup {<<Assignment(i, "dev", p)>> :
              i \in 1..(MaxTabs + 1), p \in {None, Some("p2")}}
    \cup {<<Assignment(1, "dev", None), Assignment(2, "news", Some("p2"))>>}

\* notion_client.py:48-68  how get_projects ends: it returns the list (the
\* empty list after an error status), or httpx.post raises (service
\* unreachable, timeout); nothing in _summarize_and_cluster catches that,
\* and the thread ends where it stands
ProjectOutcomes == {"listed", "raised"}

\* main.py:249-256  the SELECT of the session's tabs and the call of
\* cluster_tabs up to the classifier's answer (summarizer.py:159-210);
\* without tabs the classifier is not called (summarizer.py:160-161)
cluster_call(s) ==
    LET th == started[s]
    IN  /\ th.pc = "cluster"
        /\ \E projects \in ProjectOutcomes :
              IF projects = "raised"
              THEN started' = [started EXCEPT
                                  ![s].pc = "crashed",
                                  ![s].tab_list = SessionTabs(tabs, s)]
              ELSE \E raw \in (IF SessionTabs(tabs, s) = {} THEN {<<>>}
                               ELSE ClusterResponses) :
                      started' = [started EXCEPT
                                     ![s].pc = "apply",
                                     ![s].tab_list = SessionTabs(tabs, s),
                                     ![s].raw = raw]
        /\ UNCHANGED <<pending_re_extract,
                       now, sessions, tabs, ignored, progress, pending_close,
                       undo_buffer, issued, inflight, response>>

\* mutant of _parse_clusters: every assignment is kept
_parse_clusters_unfiltered(raw, tab_ids) == raw

\* summarizer.py:290-300  the assignments whose tab_id is a tab of the list
\* that was sent
_parse_clusters(raw, tab_ids) ==
    SelectSeq(raw, LAMBDA c : c.tab_id \in tab_ids)

\* mutant of ClusterRow: the suggested project is written over the project
\* the tab has
ClusterRow_overwriting(row, c) ==
    [row EXCEPT
        !.cluster_id = Some(c.cluster_id),
        !.cluster_label = Some(c.cluster_label),
        !.project_id = c.suggested_project_id]

\* main.py:265-271  the UPDATE of one assignment: project_id =
\* COALESCE(project_id, ?)
ClusterRow(row, c) ==
    [row EXCEPT
        !.cluster_id = Some(c.cluster_id),
        !.cluster_label = Some(c.cluster_label),
        !.project_id = IF @ # None THEN @ ELSE c.suggested_project_id]

\* main.py:260-270  the loop over clusters; WHERE id = ? matches one row or
\* none
RECURSIVE ApplyClusters(_, _)
ApplyClusters(rows, clusters) ==
    IF clusters = <<>> THEN rows
    ELSE LET c == Head(clusters)
         IN  ApplyClusters(IF c.tab_id \in 1..Len(rows)
                           THEN [rows EXCEPT ![c.tab_id] = ClusterRow(@, c)]
                           ELSE rows,
                           Tail(clusters))

\* mutant of ClusterCount: an empty clustering counts as one cluster
ClusterCount_floor(clusters) ==
    IF clusters = <<>> THEN 1
    ELSE Cardinality({clusters[k].cluster_id : k \in 1..Len(clusters)})

\* main.py:272  len(set(c["cluster_id"] for c in clusters))
ClusterCount(clusters) ==
    Cardinality({clusters[k].cluster_id : k \in 1..Len(clusters)})

\* summarizer.py:212, main.py:258-280  the answer is parsed, the assignments
\* are written and the progress record is finished
cluster_apply(s) ==
    LET th == started[s]
    IN  /\ th.pc = "apply"
        /\ \E clusters \in {_parse_clusters(th.raw, th.tab_list)} :
              /\ tabs' = ApplyClusters(tabs, clusters)
              /\ progress' = [progress EXCEPT
                                 ![s].phase = "done",
                                 ![s].clusters = ClusterCount(clusters)]
        /\ started' = [started EXCEPT ![s].pc = "done"]
        /\ UNCHANGED <<pending_re_extract,
                       now, sessions, ignored, pending_close, undo_buffer,
                       issued, inflight, response>>

SummarizeStep == \E s \in DOMAIN started : summarize_step(s)

BeginClustering == \E s \in DOMAIN started : begin_clustering(s)

ClusterCall == \E s \in DOMAIN started : cluster_call(s)

ClusterApply == \E s \in DOMAIN started : cluster_apply(s)

\* the submissions of the enrichment specification: two pages, one by one
\* (two sessions) or together (one session of two tabs)
EnrichRequests == {<<UrlA1>>, <<UrlA2>>, <<UrlA1, UrlA2>>}

CaptureEnrich == \E req \in EnrichRequests : capture_tabs(req)

\* a human tags the first tab while enrichment may be running
TagFirst ==
    triage_single(TriageItem(1, None, None, None, Some(<<"urgent">>), None))

NextEnrich ==
    \/ CaptureEnrich
    \/ TagFirst
    \/ SummarizeStep
    \/ BeginClustering
    \/ ClusterCall
    \/ ClusterApply

SpecEnrich == Init /\ [][NextEnrich]_vars

(***************************************************************************)
(* Claims about enrichment.                                                *)
(***************************************************************************)
\* the step in which the clustering of session s writes its assignments:
\* its progress record goes from clustering to done
ClusteringApplied(s) ==
    /\ s \in DOMAIN progress
    /\ progress[s].phase = "clustering"
    /\ progress'[s].phase = "done"

ClusterFields(row) == <<row.cluster_id, row.cluster_label, row.project_id>>

\* C18: the clustering of a session discards, without error, every
\* assignment of the classifier whose tab id is not a tab of the session:
\* the step that applies the answer finishes the session's enrichment, and
\* the cluster id, cluster label and project of a tab change only in the
\* clustering step of the tab's own session
C18_ForeignAssignmentsDiscarded ==
    [][ /\ \A s \in DOMAIN progress :
              ClusteringApplied(s) => started'[s].pc = "done"
        /\ \A i \in 1..Len(tabs) :
              ClusterFields(tabs'[i]) # ClusterFields(tabs[i])
                  => ClusteringApplied(tabs[i].session_id) ]_vars

\* a session finished its clustering on an answer that named a tab of
\* another session, and a tab of its own got its cluster
C18_Witness ==
    \E s \in DOMAIN started :
        /\ started[s].pc = "done"
        /\ progress[s].phase = "done"
        /\ \E k \in 1..Len(started[s].raw) :
              /\ started[s].raw[k].tab_id \in 1..Len(tabs)
              /\ tabs[started[s].raw[k].tab_id].session_id # s
              /\ tabs[started[s].raw[k].tab_id].cluster_id = None
        /\ \E k \in 1..Len(started[s].raw) :
              /\ started[s].raw[k].tab_id \in started[s].tab_list
              /\ tabs[started[s].raw[k].tab_id].cluster_id # None


\* the sessions whose background thread is started in this step
StartedNow == DOMAIN started' \ DOMAIN started

\* nothing of the enrichment of session s has happened: the thread stands
\* before its first summarize call, the progress record is as created, and
\* the tabs handed off have no summary and no cluster
NotYetEnriched(s, thr, prog, rows) ==
    /\ thr[s].pc = "summarize"
    /\ thr[s].i = 1
    /\ prog[s].phase = "summarizing"
    /\ prog[s].completed = 0
    /\ \A k \in 1..Len(thr[s].tab_ids) :
          /\ rows[thr[s].tab_ids[k]].summary = None
          /\ rows[thr[s].tab_ids[k]].cluster_id = None

\* C19: capture does not wait for enrichment: the step that answers
\* "captured" is the step that starts the session's thread, and at the
\* moment of the answer no summarize or cluster call of that session has
\* been made, its progress record having phase summarizing and completed 0
C19_CaptureDoesNotWait ==
    [][ /\ \A s \in StartedNow :
              /\ response'.op = "capture"
              /\ response'.status = "captured"
              /\ response'.session_id = Some(s)
              /\ progress'[s].total = response'.tab_count
              /\ NotYetEnriched(s, started', progress', tabs')
        /\ (response' # response /\ response'.op = "capture"
                /\ response'.status = "captured")
              => response'.session_id[1] \in StartedNow ]_vars

\* the answer of a capture has been delivered and the enrichment of its
\* session has not begun, while an earlier session is already enriched
C19_Witness ==
    /\ response.op = "capture"
    /\ response.status = "captured"
    /\ response.session_id # None
    /\ NotYetEnriched(response.session_id[1], started, progress, tabs)
    /\ \E s \in DOMAIN progress : progress[s].phase = "done"


\* the order of the phases of a progress record
PhaseRank(phase) ==
    CASE phase = "summarizing" -> 0
      [] phase = "clustering" -> 1
      [] phase = "done" -> 2

\* the step in which the thread of session s calls the cluster operation
ClusterInvoked(s) ==
    /\ s \in DOMAIN started
    /\ started[s].pc = "cluster"
    /\ started'[s].pc = "apply"

\* C20: within the enrichment of a session the cluster operation is called
\* only when the summarize step is over for every tab id handed off (each
\* of them has its summary and is counted in completed), and the phase of
\* a progress record moves only from summarizing to clustering and from
\* clustering to done
C20_SummarizeThenCluster ==
    [][ /\ \A s \in DOMAIN started :
              ClusterInvoked(s) =>
                  /\ progress[s].phase = "clustering"
                  /\ progress[s].completed = Len(started[s].tab_ids)
                  /\ \A k \in 1..Len(started[s].tab_ids) :
                        tabs[started[s].tab_ids[k]].summary # None
        /\ \A s \in DOMAIN progress :
              \/ progress'[s].phase = progress[s].phase
              \/ PhaseRank(progress'[s].phase)
                     = PhaseRank(progress[s].phase) + 1 ]_vars

\* the cluster operation has been called for a session of two tabs, both
\* summarized, and the record has been through all three phases
C20_Witness ==
    \E s \in DOMAIN started :
        /\ Len(started[s].tab_ids) = 2
        /\ started[s].pc = "done"
        /\ progress[s].phase = "done"
        /\ progress[s].completed = 2
        /\ started[s].raw # <<>>

(***************************************************************************)
(* Re-extraction (main.py:546-660).  A request queues the tab for the      *)
(* extension and starts a fallback thread that sleeps, then looks whether  *)
(* the entry is still queued.  Threads of this section stay in inflight    *)
(* with the place where they returned.                                     *)
(***************************************************************************)
\* dict.pop(key, None)
Pop(f, k) == [x \in DOMAIN f \ {k} |-> f[x]]

\* extractor.py:16-60  extract_content: the text of the page, or nothing
ExtractResults == {None, Some("trafilatura text")}

\* main.py:547-549  the body of the extension's submission: content or null
ContentInputs == {None, Some("extension text")}

\* main.py:524-535, 580-590, 645-653  the UPDATE of a re-summarization:
\* tags = COALESCE(?, tags), new tags replace the old ones
ResummarizeRow(row, s) ==
    [row EXCEPT
        !.summary = Some(s.summary),
        !.suggested_category = Some(s.suggested_category),
        !.tags = IF s.tags = <<>> THEN @ ELSE Some(s.tags)]

\* main.py:569-577, 633-641  UPDATE tabs SET content = ? WHERE id = ?
SetContent(rows, tab_id, text) ==
    IF tab_id \in 1..Len(rows)
    THEN [rows EXCEPT ![tab_id].content = Some(text)]
    ELSE rows

\* main.py:602-660  the handler: 404 for an unknown tab, else the entry is
\* queued and the fallback thread started
request_re_extract(tab_id) ==
    /\ Len(inflight) < MaxThreads
    /\ IF tab_id \notin 1..Len(tabs)
       THEN /\ response' = [op |-> "request_re_extract", status |-> 404,
                            tab_id |-> tab_id]
            /\ UNCHANGED <<pending_re_extract, inflight>>
       ELSE /\ pending_re_extract' =
                   Extend(pending_re_extract, tab_id,
                          [url |-> tabs[tab_id].url, queued_at |-> now])
            /\ inflight' = Append(inflight,
                               [op |-> "_fallback_extract", tid |-> tab_id,
                                url |-> tabs[tab_id].url, pc |-> "sleep"])
            /\ response' = [op |-> "request_re_extract",
                            status |-> "queued", tab_id |-> tab_id]
    /\ UNCHANGED <<now, sessions, tabs, ignored, progress, started,
                   pending_close, undo_buffer, issued>>

\* mutant of EntryGone: the fallback does not look at the queue
EntryGone_ignored(pending, tid) == FALSE

\* main.py:619  tid not in _pending_re_extract
EntryGone(pending, tid) == tid \notin DOMAIN pending

\* main.py:617-624  the fallback wakes: it returns if the entry is gone,
\* else it removes the entry
fallback_wake(k) ==
    /\ inflight[k].op = "_fallback_extract"
    /\ inflight[k].pc = "sleep"
    /\ IF EntryGone(pending_re_extract, inflight[k].tid)
       THEN /\ inflight' = [inflight EXCEPT ![k].pc = "skipped"]
            /\ UNCHANGED pending_re_extract
       ELSE /\ pending_re_extract' = Pop(pending_re_extract, inflight[k].tid)
            /\ inflight' = [inflight EXCEPT ![k].pc = "extract"]
    /\ UNCHANGED <<now, sessions, tabs, ignored, progress, started,
                   pending_close, undo_buffer, issued, response>>

\* main.py:627-641  extract_content and, if it gave text, the UPDATE of
\* the content
fallback_extract(k) ==
    /\ inflight[k].op = "_fallback_extract"
    /\ inflight[k].pc = "extract"
    /\ \E result \in ExtractResults :
          IF result = None
          THEN /\ inflight' = [inflight EXCEPT ![k].pc = "failed"]
               /\ UNCHANGED tabs
          ELSE /\ tabs' = SetContent(tabs, inflight[k].tid, result[1])
               /\ inflight' = [inflight EXCEPT ![k].pc = "resummarize"]
    /\ UNCHANGED <<now, sessions, ignored, progress, started, pending_close,
                   undo_buffer, issued, pending_re_extract, response>>

\* main.py:580-592, 644-655  the re-summarization that follows a write of
\* the content, on the fallback thread or on the thread update_content
\* started
resummarize(k) ==
    /\ inflight[k].op \in {"_fallback_extract", "_resummarize"}
    /\ inflight[k].pc = "resummarize"
    /\ IF inflight[k].tid \in 1..Len(tabs)
       THEN \E o \in ClassifierOutcomes :
               tabs' = [tabs EXCEPT ![inflight[k].tid] =
                           ResummarizeRow(@, summarize_tab(@.content, o))]
       ELSE UNCHANGED tabs
    /\ inflight' = [inflight EXCEPT ![k].pc = "done"]
    /\ UNCHANGED <<now, sessions, ignored, progress, started, pending_close,
                   undo_buffer, issued, pending_re_extract, response>>

\* main.py:546-599  the extension's submission: with content the entry is
\* removed, the content written and a re-summarization started; without,
\* nothing happens
update_content(tab_id, content) ==
    IF content # None
    THEN /\ Len(inflight) < MaxThreads
         /\ pending_re_extract' = Pop(pending_re_extract, tab_id)
         /\ tabs' = SetContent(tabs, tab_id, content[1])
         /\ inflight' = Append(inflight,
                            [op |-> "_resummarize", tid |-> tab_id,
                             url |-> None, pc |-> "resummarize"])
         /\ response' = [op |-> "update_content",
                         status |-> "content_received", tab_id |-> tab_id]
         /\ UNCHANGED <<now, sessions, ignored, progress, started,
                        pending_close, undo_buffer, issued>>
    ELSE /\ response' = [op |-> "update_content", status |-> "not_found",
                         tab_id |-> tab_id]
         /\ UNCHANGED <<now, sessions, tabs, ignored, progress, started,
                        pending_close, undo_buffer, issued,
                        pending_re_extract, inflight>>

\* the tab ids of the requests: the rows of the store and one id of no row
ReExtractIds == 1..(Len(tabs) + 1)

RequestReExtract == \E tab_id \in ReExtractIds : request_re_extract(tab_id)

UpdateContent ==
    \E tab_id \in ReExtractIds, content \in ContentInputs :
        update_content(tab_id, content)

FallbackWake == \E k \in 1..Len(inflight) : fallback_wake(k)

FallbackExtract == \E k \in 1..Len(inflight) : fallback_extract(k)

Resummarize == \E k \in 1..Len(inflight) : resummarize(k)

NextReExtract ==
    \/ RequestReExtract
    \/ UpdateContent
    \/ FallbackWake
    \/ FallbackExtract
    \/ Resummarize

\* one or two stored tabs, not yet summarized
InitReExtract ==
    /\ InitTriage
    /\ Len(tabs) <= 2
    /\ \A i \in 1..Len(tabs) : tabs[i].suggested_category = None

SpecReExtract == InitReExtract /\ [][NextReExtract]_vars

(***************************************************************************)
(* Claims about re-extraction.                                             *)
(***************************************************************************)
\* C21: a submission of content by the extension removes the tab's pending
\* entry, and a fallback that wakes up and finds the entry of its tab gone
\* returns at once: it extracts nothing, writes no row and leaves the
\* queue as it is
C21_FallbackStandsDown ==
    [][ /\ \A t \in ReExtractIds :
              (response'.op = "update_content"
                   /\ update_content(t, Some("extension text")))
                  => t \notin DOMAIN pending_re_extract'
        /\ \A k \in 1..Len(inflight) :
              (inflight[k].op = "_fallback_extract"
                   /\ inflight[k].tid \notin DOMAIN pending_re_extract
                   /\ fallback_wake(k))
                  => /\ inflight' = [inflight EXCEPT ![k].pc = "skipped"]
                     /\ tabs' = tabs
                     /\ pending_re_extract' = pending_re_extract ]_vars

\* the extension submitted content for a tab after its re-extraction was
\* requested, and the fallback woke up afterwards and returned without
\* extracting: the tab has the extension's content
C21_Witness ==
    \E k \in 1..Len(inflight) : \E j \in (k + 1)..Len(inflight) :
        /\ inflight[k].op = "_fallback_extract"
        /\ inflight[k].pc = "skipped"
        /\ inflight[j].op = "_resummarize"
        /\ inflight[j].tid = inflight[k].tid
        /\ inflight[k].tid \in 1..Len(tabs)
        /\ tabs[inflight[k].tid].content = Some("extension text")

\* C22 (refuted): the race has a single winner: no tab has its content
\* written by the fallback of a re-extract request and also by a
\* submission of the extension that came after that request
C22_SingleWinner ==
    \A k \in 1..Len(inflight) : \A j \in (k + 1)..Len(inflight) :
        ~ /\ inflight[k].op = "_fallback_extract"
          /\ inflight[k].pc \in {"resummarize", "done"}
          /\ inflight[j].op = "_resummarize"
          /\ inflight[j].tid = inflight[k].tid

(***************************************************************************)
(* Decisions that forward to the note service.                             *)
(***************************************************************************)
\* main.py:101-108  a TriageItem with a forwarding target
ForwardItem(tab_id, category, project_id, notion_target) ==
    [TriageItem(tab_id, category, project_id, None, None, None) EXCEPT
        !.notion_target = notion_target]

\* the decisions a client posts: for the first row or an unknown id, filed
\* or dismissed, with or without a project, without a target or with one
ForwardItems ==
    {ForwardItem(i, c, p, g) :
        i \in {1, MaxSeed + 1},
        c \in {Some("reference"), Some("dismiss")},
        p \in {None, Some("p1")},
        g \in {None, Some("links"), Some("parken"), Some("project"),
               Some("todo-today"), Some("todo-someday")}}

\* the lists a client posts to the bulk endpoint: two forwarded items; an
\* unknown id before a forwarded item; a dismissed item before a task
ForwardBulkRequests ==
    {<<ForwardItem(1, Some("reference"), None, Some("links")),
       ForwardItem(2, Some("actionable"), None, Some("parken"))>>,
     <<ForwardItem(MaxSeed + 1, Some("reference"), None, Some("links")),
       ForwardItem(1, Some("reference"), Some("p1"), Some("project"))>>,
     <<ForwardItem(2, Some("dismiss"), None, Some("links")),
       ForwardItem(1, Some("actionable"), None, Some("todo-someday"))>>}

TriageForward == \E item \in ForwardItems : triage_single(item)

TriageBulkForward == \E items \in ForwardBulkRequests : triage_bulk(items)

NextForward == TriageForward \/ TriageBulkForward

SpecForward == InitDecisions /\ [][NextForward]_vars

(***************************************************************************)
(* Claims about forwarding.                                                *)
(***************************************************************************)
\* the answer of a triage call whose forwarding operation was called and
\* did not create an entry
ForwardingFailed(resp) ==
    /\ resp.calls # <<>>
    /\ \/ resp.status # 200
       \/ resp.result.notion_url = None

\* C23 (refuted): when the forwarding operation of a single triage fails,
\* the row keeps what the call wrote and the failure is nothing but a null
\* forwarding result in the answer
C23_ForwardFailureOnlyNull ==
    [][ \A item \in ForwardItems :
          (response'.op = "triage" /\ triage_single(item)
               /\ ForwardingFailed(response'))
              => /\ DecisionApplied(item)
                 /\ response'.status = 200
                 /\ response'.result.status = "triaged"
                 /\ response'.result.notion_url = None ]_vars

\* what one item of a bulk request has to leave in the row it names
ItemStored(rows, item) ==
    item.tab_id \in 1..Len(rows) =>
        /\ rows[item.tab_id].category = item.category
        /\ rows[item.tab_id].triaged_at # None

\* C24 (refuted): bulk triage applies every item of its list and answers
\* with one result per item, whatever happens to the forwarding of an
\* earlier item
C24_BulkAppliesEveryItem ==
    [][ \A items \in ForwardBulkRequests :
          (response'.op = "triage_bulk" /\ triage_bulk(items))
              => /\ \A i \in 1..Len(items) : ItemStored(tabs', items[i])
                 /\ response'.status = 200
                 /\ response'.count = Len(items)
                 /\ \A i \in 1..Len(items) :
                       response'.results[i].tab_id = items[i].tab_id ]_vars

\* the forwarding operation a target selects
Selected(target) ==
    CASE target = "links" -> "create_link"
      [] target = "parken" -> "create_backlog_card"
      [] target = "project" -> "append_to_project"
      [] target = "todo-today" -> "create_task"
      [] target = "todo-someday" -> "create_task"

\* C25: a single triage calls at most one forwarding operation, the one
\* its target selects; it calls none for a dismissed tab, without a target,
\* and for the target project without a project reference; a dismissed tab
\* is marked triaged all the same
C25_AtMostOneForward ==
    [][ \A item \in ForwardItems :
          (response'.op = "triage" /\ triage_single(item)) =>
              /\ Len(response'.calls) <= 1
              /\ response'.calls # <<>> =>
                    /\ item.notion_target # None
                    /\ response'.calls[1] = Selected(item.notion_target[1])
              /\ (\/ item.category = Some("dismiss")
                  \/ item.notion_target = None
                  \/ (item.notion_target = Some("project")
                          /\ item.project_id = None))
                    => response'.calls = <<>>
              /\ (item.category = Some("dismiss")
                      /\ item.tab_id \in 1..Len(tabs))
                    => /\ tabs'[item.tab_id].category = Some("dismiss")
                       /\ tabs'[item.tab_id].triaged_at # None ]_vars

\* a tab with a project was dismissed: nothing was
\* forwarded and the tab is triaged
C25_Witness ==
    /\ response.op = "triage"
    /\ response.status = 200
    /\ response.calls = <<>>
    /\ response.result.tab_id = 1
    /\ response.result.notion_url = None
    /\ tabs[1].category = Some("dismiss")
    /\ tabs[1].triaged_at # None
    /\ tabs[1].project_id = Some("p1")

(***************************************************************************)
(* Claims about the progress record and the phases of enrichment.          *)
(***************************************************************************)
\* C26: a capture that stores N >= 1 tabs creates the record {total N,
\* completed 0, phase summarizing, clusters 0}; from then on total stays,
\* completed does not decrease and lies between 0 and total, and it equals
\* total whenever the phase is clustering or done
C26_ProgressCounts ==
    [][ /\ \A s \in StartedNow :
              /\ Cardinality({i \in 1..Len(tabs') :
                                  tabs'[i].session_id = s}) >= 1
              /\ progress'[s] =
                    [total |-> Cardinality({i \in 1..Len(tabs') :
                                               tabs'[i].session_id = s}),
                     completed |-> 0, phase |-> "summarizing",
                     clusters |-> 0]
        /\ \A s \in DOMAIN progress :
              /\ s \in DOMAIN progress'
              /\ progress'[s].total = progress[s].total
              /\ progress'[s].completed >= progress[s].completed
        /\ \A s \in DOMAIN progress' :
              /\ 0 <= progress'[s].completed
              /\ progress'[s].completed <= progress'[s].total
              /\ progress'[s].phase \in {"clustering", "done"}
                    => progress'[s].completed = progress'[s].total ]_vars

\* a session of two tabs is half summarized: the first tab has its summary,
\* the second has none yet
C26_Witness ==
    \E s \in DOMAIN progress :
        /\ progress[s].total = 2
        /\ progress[s].completed = 1
        /\ progress[s].phase = "summarizing"
        /\ tabs[started[s].tab_ids[1]].summary # None
        /\ tabs[started[s].tab_ids[2]].summary = None

\* the session ids of the enrichment specification
EnrichSessions == 1..MaxTabs

\* a step of the background thread of session s
EnrichStep(s) ==
    /\ s \in DOMAIN started
    /\ \/ summarize_step(s)
       \/ begin_clustering(s)
       \/ cluster_call(s)
       \/ cluster_apply(s)

\* the enrichment specification with every thread scheduled fairly: a
\* thread that can take a step eventually takes one, and every external
\* call it makes comes back
SpecEnrichFair ==
    SpecEnrich /\ \A s \in EnrichSessions : WF_vars(EnrichStep(s))

\* C27 (refuted): every session that has a progress record eventually has
\* phase done
C27_EventuallyDone ==
    \A s \in EnrichSessions :
        [](s \in DOMAIN progress
              => <>(s \in DOMAIN progress /\ progress[s].phase = "done"))

\* the answer of the classifier has no assignment for a tab of the session
NoAssignment(th) ==
    \A k \in 1..Len(th.raw) : th.raw[k].tab_id \notin th.tab_list

\* C28: when the cluster call fails or gives no assignment for the
\* session, the step that finishes the clustering changes no tab's cluster
\* id, cluster label or project, and the session ends with phase done and
\* clusters 0
C28_EmptyClusteringWritesNothing ==
    [][ \A s \in DOMAIN started :
          (started[s].pc = "apply" /\ started'[s].pc # "apply"
               /\ NoAssignment(started[s]))
              => /\ \A i \in 1..Len(tabs) :
                       ClusterFields(tabs'[i]) = ClusterFields(tabs[i])
                 /\ Len(tabs') = Len(tabs)
                 /\ progress'[s].phase = "done"
                 /\ progress'[s].clusters = 0 ]_vars

\* a session is done after a cluster call that gave nothing: its tabs are
\* summarized and have no cluster
C28_Witness ==
    \E s \in DOMAIN started :
        /\ started[s].pc = "done"
        /\ started[s].raw = <<>>
        /\ started[s].tab_list # {}
        /\ progress[s].phase = "done"
        /\ progress[s].clusters = 0
        /\ \A i \in started[s].tab_list :
              /\ tabs[i].summary # None
              /\ tabs[i].cluster_id = None
              /\ tabs[i].cluster_label = None

\* C29: a failed classification of one tab does not stop the summarization
\* of the later ones: when a session has phase done, every tab handed off
\* for it has a summary and a suggested category that is one of read-later,
\* reference, actionable, archive
C29_AllSummarizedWhenDone ==
    \A s \in DOMAIN progress :
        progress[s].phase = "done" =>
            \A k \in 1..Len(started[s].tab_ids) :
                /\ tabs[started[s].tab_ids[k]].summary # None
                /\ tabs[started[s].tab_ids[k]].suggested_category \in
                       {Some("read-later"), Some("reference"),
                        Some("actionable"), Some("archive")}

\* a session of two tabs is done: the classification of the first failed
\* and left the placeholder and the default category, the second has its
\* summary
C29_Witness ==
    \E s \in DOMAIN progress :
        /\ progress[s].phase = "done"
        /\ Len(started[s].tab_ids) = 2
        /\ tabs[started[s].tab_ids[1]].summary =
               Some("[Kein ausreichender Inhalt extrahiert für: title]")
        /\ tabs[started[s].tab_ids[1]].suggested_category = Some("archive")
        /\ tabs[started[s].tab_ids[2]].summary = Some("summary")

\* the step in which the thread of a session finishes the summarize step
\* of a tab
SummarizeCompleted(s) ==
    /\ s \in DOMAIN started
    /\ started'[s].i = started[s].i + 1

\* C30: the summarize step of a capture's enrichment never replaces tags a
\* tab already has: in such a step tags that were set stay as they were,
\* and tags change only on a tab that had none
C30_TagsNotOverwritten ==
    [][ (\E s \in DOMAIN started : SummarizeCompleted(s)) =>
            \A i \in 1..Len(tabs) :
                /\ tabs[i].tags # None => tabs'[i].tags = tabs[i].tags
                /\ tabs'[i].tags # tabs[i].tags => tabs[i].tags = None ]_vars

\* the first tab carries the tags a human gave it and the summary of a
\* classifier answer that came with tags of its own
C30_Witness ==
    /\ Len(tabs) >= 1
    /\ tabs[1].tags = Some(<<"urgent">>)
    /\ tabs[1].summary = Some("summary")
    /\ tabs[1].category = None
    /\ \E s \in DOMAIN started :
          /\ started[s].tab_ids[1] = 1
          /\ started[s].pc = "summarize"
          /\ started[s].i = 2

(***************************************************************************)
(* Re-summarization on demand (main.py:517-543) and in a batch             *)
(* (main.py:407-429, 1078-1096).  Both hand the work to a thread; the      *)
(* threads stay in inflight with the place where they returned.            *)
(***************************************************************************)
\* main.py:517-543  the handler: 404 for an unknown tab, else a thread is
\* started with the title, url and content just read
re_summarize_tab(tab_id) ==
    /\ Len(inflight) < MaxThreads
    /\ IF tab_id \notin 1..Len(tabs)
       THEN /\ response' = [op |-> "re_summarize_tab", status |-> 404,
                            tab_id |-> tab_id]
            /\ UNCHANGED inflight
       ELSE /\ inflight' = Append(inflight,
                               [op |-> "_do_resummarize", tid |-> tab_id,
                                content |-> tabs[tab_id].content,
                                pc |-> "resummarize"])
            /\ response' = [op |-> "re_summarize_tab",
                            status |-> "re-summarizing", tab_id |-> tab_id]
    /\ UNCHANGED <<now, sessions, tabs, ignored, progress, started,
                   pending_close, undo_buffer, issued, pending_re_extract>>

\* main.py:525-538  _do_resummarize: the classifier is called and the row
\* updated, on the thread
do_resummarize(k) ==
    /\ inflight[k].op = "_do_resummarize"
    /\ inflight[k].pc = "resummarize"
    /\ \E o \in ClassifierOutcomes :
          tabs' = [tabs EXCEPT ![inflight[k].tid] =
                      ResummarizeRow(@, summarize_tab(inflight[k].content, o))]
    /\ inflight' = [inflight EXCEPT ![k].pc = "done"]
    /\ UNCHANGED <<now, sessions, ignored, progress, started, pending_close,
                   undo_buffer, issued, pending_re_extract, response>>

\* s LIKE 'p%'
StartsWith(s, p) == Len(s) >= Len(p) /\ SubSeq(s, 1, Len(p)) = p

\* main.py:413-417  WHERE (summary LIKE '[Zusammenfassung fehlgeschlagen:%'
\* OR summary LIKE '[Kein ausreichender%' OR summary IS NULL)
\* AND triaged_at IS NULL
BatchSelected(rows) ==
    {i \in 1..Len(rows) :
        /\ \/ rows[i].summary = None
           \/ StartsWith(rows[i].summary[1],
                         "[Zusammenfassung fehlgeschlagen:")
           \/ StartsWith(rows[i].summary[1], "[Kein ausreichender")
        /\ rows[i].triaged_at = None}

\* main.py:407-429  the handler: nothing to do, or a thread is started with
\* the rows selected
re_summarize_batch ==
    /\ Len(inflight) < MaxThreads
    /\ IF BatchSelected(tabs) = {}
       THEN /\ response' = [op |-> "re_summarize_batch", status |-> "none",
                            count |-> 0]
            /\ UNCHANGED inflight
       ELSE /\ inflight' =
                   Append(inflight,
                       [op |-> "_batch_re_summarize",
                        tab_list |-> Ascending(BatchSelected(tabs)),
                        contents |-> [i \in BatchSelected(tabs) |->
                                          tabs[i].content],
                        i |-> 1, pc |-> "loop"])
            /\ response' = [op |-> "re_summarize_batch",
                            status |-> "started",
                            count |-> Cardinality(BatchSelected(tabs))]
    /\ UNCHANGED <<now, sessions, tabs, ignored, progress, started,
                   pending_close, undo_buffer, issued, pending_re_extract>>

\* main.py:1078-1096  _batch_re_summarize: one iteration of the loop over
\* tab_list, or its end
batch_re_summarize(k) ==
    /\ inflight[k].op = "_batch_re_summarize"
    /\ inflight[k].pc = "loop"
    /\ IF inflight[k].i > Len(inflight[k].tab_list)
       THEN /\ inflight' = [inflight EXCEPT ![k].pc = "done"]
            /\ UNCHANGED tabs
       ELSE /\ \E o \in ClassifierOutcomes :
                  tabs' = [tabs EXCEPT ![inflight[k].tab_list[inflight[k].i]] =
                              ResummarizeRow(@,
                                  summarize_tab(
                                      inflight[k].contents[
                                          inflight[k].tab_list[inflight[k].i]],
                                      o))]
            /\ inflight' = [inflight EXCEPT ![k].i = @ + 1]
    /\ UNCHANGED <<now, sessions, ignored, progress, started, pending_close,
                   undo_buffer, issued, pending_re_extract, response>>

ReSummarizeTab == \E tab_id \in ReExtractIds : re_summarize_tab(tab_id)

DoResummarize == \E k \in 1..Len(inflight) : do_resummarize(k)

BatchReSummarize == \E k \in 1..Len(inflight) : batch_re_summarize(k)

NextRepair ==
    \/ ReSummarizeTab
    \/ DoResummarize
    \/ re_summarize_batch
    \/ BatchReSummarize

\* the summaries the enrichment of a tab can have left: none yet, or what
\* summarize_tab returned, with the content it was called with
RepairSeeds ==
    {[summary |-> None, content |-> None]}
    \cup {[summary |-> Some(summarize_tab(c, o).summary), content |-> c] :
              c \in {None, Some("extension text")}, o \in ClassifierOutcomes}

\* two stored tabs: the first in any state of summary, with or without a
\* decision and tags of its own; the second untriaged, summarized or not
InitRepair ==
    /\ now = 0
    /\ sessions = {1, 2}
    /\ \E seed \in RepairSeeds, triaged \in BOOLEAN,
          tags \in {None, Some(<<"urgent">>)},
          second \in {None, Some("archive")} :
          tabs = <<[NewTab(1, UrlA1, 0 - Day) EXCEPT
                       !.summary = seed.summary,
                       !.content = seed.content,
                       !.suggested_category =
                           IF seed.summary = None THEN None
                           ELSE Some("read-later"),
                       !.category = IF triaged THEN Some("reference")
                                    ELSE None,
                       !.triaged_at = IF triaged THEN Some(0 - Day)
                                      ELSE None,
                       !.tags = tags],
                   SeedRow(2, 2, UrlA2, second)>>
    /\ ignored = {}
    /\ progress = <<>>
    /\ started = <<>>
    /\ pending_close = <<>>
    /\ undo_buffer = <<>>
    /\ issued = 0
    /\ pending_re_extract = <<>>
    /\ inflight = <<>>
    /\ response = [op |-> "none"]

SpecRepair == InitRepair /\ [][NextRepair]_vars

(***************************************************************************)
(* Claims about re-summarization.                                          *)
(***************************************************************************)
\* C31 (refuted): re-summarization, single or in a batch, writes the
\* classifier's tags only on a tab that has none: tags a tab already has
\* are never replaced
C31_ResummarizeKeepsTags ==
    [][ \A i \in 1..Len(tabs) :
          tabs[i].tags # None => tabs'[i].tags = tabs[i].tags ]_vars

\* C33 (refuted): when the re-summarize call for a tab returns, the
\* classifier has run and the new summary is stored: no re-summarization of
\* that tab is still to be done
C33_ResummarizeSynchronous ==
    [][ \A t \in 1..Len(tabs) :
          (response'.op = "re_summarize_tab" /\ re_summarize_tab(t))
              => ~ \E k \in 1..Len(inflight') :
                     /\ inflight'[k].op = "_do_resummarize"
                     /\ inflight'[k].tid = t
                     /\ inflight'[k].pc = "resummarize" ]_vars

\* the placeholders a failed classification leaves, of every reason
FailurePlaceholders ==
    {summarize_tab(c, o).summary :
        c \in {None, Some("extension text")},
        o \in {x \in ClassifierOutcomes : x.kind # "answer"}}

\* the tabs a repair has to take up: untriaged, and without summary or
\* with the placeholder of a failure
Repairable(rows) ==
    {i \in 1..Len(rows) :
        /\ rows[i].triaged_at = None
        /\ \/ rows[i].summary = None
           \/ rows[i].summary[1] \in FailurePlaceholders}

\* C35 (refuted): the re-summarize batch takes up exactly the untriaged
\* tabs whose summary is missing or is the placeholder of a failed
\* classification, whatever the reason of the failure
C35_BatchSelectsFailed ==
    [][ (response'.op = "re_summarize_batch" /\ re_summarize_batch)
            => /\ response'.count = Cardinality(Repairable(tabs))
               /\ response'.status = "started" =>
                     Range(inflight'[Len(inflight')].tab_list)
                         = Repairable(tabs) ]_vars


(***************************************************************************)
(* Clustering while a human assigns a project.                             *)
(***************************************************************************)
\* a human assigns the first tab to a project while enrichment may be
\* running
AssignFirst ==
    triage_single(TriageItem(1, None, Some("p1"), None, None, None))

NextAssign ==
    \/ CaptureEnrich
    \/ AssignFirst
    \/ SummarizeStep
    \/ BeginClustering
    \/ ClusterCall
    \/ ClusterApply

SpecAssign == Init /\ [][NextAssign]_vars

\* the assignments of the classifier's answer that name row i of the list
\* that was sent
AssignmentsFor(th, i) ==
    {th.raw[k] : k \in {j \in 1..Len(th.raw) :
                           th.raw[j].tab_id = i /\ i \in th.tab_list}}

\* C32: the step that writes a clustering leaves a project a tab already has
\* as it is; on a tab without project it writes the suggested project; and
\* it writes cluster id and label of the assignment in either case
C32_ClusterKeepsProject ==
    [][ \A s \in DOMAIN started :
          (started[s].pc = "apply" /\ started'[s].pc = "done")
              => \A i \in 1..Len(tabs) :
                   /\ tabs[i].project_id # None
                          => tabs'[i].project_id = tabs[i].project_id
                   /\ \A c \in AssignmentsFor(started[s], i) :
                        /\ tabs'[i].cluster_id = Some(c.cluster_id)
                        /\ tabs'[i].cluster_label = Some(c.cluster_label)
                        /\ tabs[i].project_id = None
                              => tabs'[i].project_id = c.suggested_project_id
      ]_vars

\* the clustering of a session is written, it suggested project p2 for the
\* first tab, and the tab carries the project p1 a human gave it
C32_Witness ==
    \E s \in DOMAIN started :
        /\ started[s].pc = "done"
        /\ \E c \in AssignmentsFor(started[s], 1) :
              /\ c.suggested_project_id = Some("p2")
              /\ tabs[1].cluster_id = Some(c.cluster_id)
        /\ tabs[1].project_id = Some("p1")


(***************************************************************************)
(* Claims about concurrent enrichment tasks.                               *)
(***************************************************************************)
\* C34: the enrichment task of a session is started once and never
\* replaced; a step of the task of session s changes no progress record but
\* that of s; and a progress record changes only in a step of the task of
\* its own session
C34_ProgressIsolated ==
    [][ /\ \A s \in DOMAIN started :
              /\ s \in DOMAIN started'
              /\ started'[s].tab_ids = started[s].tab_ids
              /\ started'[s] # started[s]
                    => \A t \in DOMAIN progress \ {s} :
                          t \in DOMAIN progress' /\ progress'[t] = progress[t]
        /\ \A s \in DOMAIN progress :
              /\ s \in DOMAIN progress'
              /\ progress'[s] # progress[s]
                    => s \in DOMAIN started /\ started'[s] # started[s]
      ]_vars

\* the tasks of two sessions are both under way: the first has summarized
\* its tab, the second is already clustering
C34_Witness ==
    /\ {1, 2} \subseteq DOMAIN started
    /\ started[1].pc = "summarize" /\ started[1].i = 2
    /\ progress[1].completed = 1 /\ progress[1].phase = "summarizing"
    /\ started[2].pc = "cluster"
    /\ progress[2].phase = "clustering"


(***************************************************************************)
(* Claims about the bookkeeping of a capture call.                         *)
(***************************************************************************)
\* the URLs of sequence a are entries of sequence b, taken in b's order
IsSubsequence(a, b) ==
    \E idx \in [1..Len(a) -> 1..Len(b)] :
        /\ \A k \in 1..Len(a) : b[idx[k]] = a[k]
        /\ \A k \in 1..(Len(a) - 1) : idx[k] < idx[k + 1]

\* C36: a capture call stores or skips each submission once: tab_count
\* plus skipped is the length of the submission list; the rows it appends
\* are tab_count many, their URLs are submissions in submission order, and
\* each belongs to the session the call created; the rows stored before
\* stay as they were
C36_PersistedOrSkippedOnce ==
    [][ response'.op = "capture" =>
          LET n == Len(tabs') - Len(tabs)
              urls == [k \in 1..n |-> tabs'[Len(tabs) + k].url]
          IN  /\ response'.tab_count + response'.skipped
                    = Len(response'.req)
              /\ n = response'.tab_count
              /\ SubSeq(tabs', 1, Len(tabs)) = tabs
              /\ IsSubsequence(urls, response'.req)
              /\ n > 0 =>
                    /\ response'.session_id # None
                    /\ response'.session_id[1] \notin sessions
                    /\ response'.session_id[1] \in sessions'
                    /\ \A k \in 1..n :
                          tabs'[Len(tabs) + k].session_id
                              = response'.session_id[1]
      ]_vars

\* a call stored one of two submissions in a new session next to a row of
\* an earlier session, and skipped the other
C36_Witness ==
    /\ Captured
    /\ Len(response.req) = 2
    /\ response.tab_count = 1
    /\ response.skipped = 1
    /\ Len(tabs) = 2
    /\ Some(tabs[2].session_id) = response.session_id
    /\ tabs[1].session_id # tabs[2].session_id


(***************************************************************************)
(* Claims about category and triaged_at as a pair.                         *)
(***************************************************************************)
Undecided(row) == row.category = None
Unstamped(row) == row.triaged_at = None

\* C37: before and after every step of single triage, bulk triage,
\* auto-triage, undo and starring, a row is without category exactly if it
\* is without triaged_at, and a step gives or takes the one exactly if it
\* gives or takes the other
C37_CategoryNullIffUntriaged ==
    [][ \A i \in 1..Len(tabs) :
          /\ Undecided(tabs[i]) <=> Unstamped(tabs[i])
          /\ Undecided(tabs'[i]) <=> Unstamped(tabs'[i])
          /\ (Undecided(tabs[i]) # Undecided(tabs'[i]))
                <=> (Unstamped(tabs[i]) # Unstamped(tabs'[i]))
      ]_vars

\* an undo has taken category and triaged_at from the second row, after the
\* first row was starred by a human and not decided
C37_Witness ==
    /\ response.op = "triage_auto_undo"
    /\ response.http = 200
    /\ Len(tabs) >= 2
    /\ tabs[2].suggested_category # None
    /\ Undecided(tabs[2]) /\ Unstamped(tabs[2])
    /\ tabs[1].starred = 1
    /\ Undecided(tabs[1]) /\ Unstamped(tabs[1])
    /\ tabs[1].suggested_category = None


(***************************************************************************)
(* Undo against explicit close requests.                                   *)
(***************************************************************************)
NextUndoClose == RequestClose \/ triage_auto \/ TriageAutoUndo

SpecUndoClose == InitTriage /\ [][NextUndoClose]_vars

\* the URLs the batch can have enqueued: those of its rows that were
\* suggested for the archive
BatchUrls(batch) ==
    {tabs[batch.pre_state[k].tab_id].url :
        k \in {j \in 1..Len(batch.pre_state) :
                  /\ batch.pre_state[j].tab_id \in 1..Len(tabs)
                  /\ tabs[batch.pre_state[j].tab_id].suggested_category
                        = Some("archive")}}

WriteLocked_never(fl) == FALSE

\* main.py:50-59, 132-135  another connection is inside its write
\* transaction
WriteLocked(fl) ==
    \E k \in 1..Len(fl) : fl[k].op = "capture_tabs" /\ fl[k].pc = "loop"

\* the calls in flight once call k has answered
Finished(fl, k) ==
    [j \in 1..(Len(fl) - 1) |-> IF j < k THEN fl[j] ELSE fl[j + 1]]

\* main.py:128-131  the call arrives and opens its connection
capture_call(req) ==
    /\ Len(inflight) < MaxThreads
    /\ inflight' = Append(inflight,
                      [op |-> "capture_tabs", req |-> req, pc |-> "waiting",
                       session_id |-> 0, i |-> 1, base |-> 0,
                       acc |-> [seen_urls |-> {}, rows |-> <<>>,
                                tab_ids |-> <<>>, skipped |-> 0]])
    /\ UNCHANGED <<now, sessions, tabs, ignored, progress, started,
                   pending_close, undo_buffer, issued, pending_re_extract,
                   response>>

\* main.py:132-138  INSERT INTO sessions: the write transaction begins, on
\* the database as it is committed now
capture_begin(k) ==
    /\ inflight[k].op = "capture_tabs"
    /\ inflight[k].pc = "waiting"
    /\ ~ WriteLocked(inflight)
    /\ inflight' = [inflight EXCEPT
                       ![k].pc = "loop",
                       ![k].session_id = NewRowId(sessions),
                       ![k].base = Len(tabs),
                       ![k].acc = [seen_urls |-> {}, rows |-> tabs,
                                   tab_ids |-> <<>>, skipped |-> 0]]
    /\ UNCHANGED <<now, sessions, tabs, ignored, progress, started,
                   pending_close, undo_buffer, issued, pending_re_extract,
                   response>>

\* main.py:51, 132  the other transaction outlasts the connection's
\* timeout: the INSERT raises `database is locked` and the call fails
capture_busy(k) ==
    /\ inflight[k].op = "capture_tabs"
    /\ inflight[k].pc = "waiting"
    /\ WriteLocked(inflight)
    /\ inflight' = Finished(inflight, k)
    /\ response' = [op |-> "capture_failed", req |-> inflight[k].req,
                    http |-> 500]
    /\ UNCHANGED <<now, sessions, tabs, ignored, progress, started,
                   pending_close, undo_buffer, issued, pending_re_extract>>

\* main.py:141-197  one iteration of the loop: the filters and the INSERT,
\* inside the call's transaction
capture_iter(k) ==
    LET h == inflight[k]
    IN  /\ h.op = "capture_tabs"
        /\ h.pc = "loop"
        /\ h.i <= Len(h.req)
        /\ inflight' = [inflight EXCEPT
                           ![k].i = @ + 1,
                           ![k].acc = CaptureLoop(<<h.req[h.i]>>, 1,
                                          h.session_id, ignored, now, h.acc)]
        /\ UNCHANGED <<now, sessions, tabs, ignored, progress, started,
                       pending_close, undo_buffer, issued,
                       pending_re_extract, response>>

\* main.py:199-220, 57  after the loop: the empty session is deleted, the
\* transaction is committed, the progress record is made, the thread is
\* started and the call answers
capture_commit(k) ==
    LET h == inflight[k]
        rows == SubSeq(h.acc.rows, h.base + 1, Len(h.acc.rows))
    IN  /\ h.op = "capture_tabs"
        /\ h.pc = "loop"
        /\ h.i > Len(h.req)
        /\ tabs' = tabs \o rows
        /\ sessions' = SessionsAfterCapture(sessions \cup {h.session_id},
                                            h.session_id, h.acc.tab_ids)
        /\ IF h.acc.tab_ids = <<>>
           THEN /\ response' = [op |-> "capture", req |-> h.req,
                                session_id |-> None, tab_count |-> 0,
                                skipped |-> h.acc.skipped,
                                status |-> "all_duplicates"]
                /\ UNCHANGED <<progress, started>>
           ELSE /\ progress' = Extend(progress, h.session_id,
                                      NewProgress(h.acc.tab_ids))
                /\ started' = Extend(started, h.session_id,
                                     NewThread(h.acc.tab_ids))
                /\ response' = [op |-> "capture", req |-> h.req,
                                session_id |-> Some(h.session_id),
                                tab_count |-> Len(h.acc.tab_ids),
                                skipped |-> h.acc.skipped,
                                status |-> "captured"]
        /\ inflight' = Finished(inflight, k)
        /\ UNCHANGED <<now, ignored, pending_close, undo_buffer, issued,
                       pending_re_extract>>

\* the submissions of concurrent calls: two pages, the first alone or both
\* in either order
RaceRequests == {<<UrlA1>>, <<UrlA1, UrlA2>>, <<UrlA2, UrlA1>>}

CaptureCall == \E req \in RaceRequests : capture_call(req)
CaptureBegin == \E k \in 1..Len(inflight) : capture_begin(k)
CaptureBusy == \E k \in 1..Len(inflight) : capture_busy(k)
CaptureIter == \E k \in 1..Len(inflight) : capture_iter(k)
CaptureCommit == \E k \in 1..Len(inflight) : capture_commit(k)

NextCaptureRace ==
    \/ CaptureCall
    \/ CaptureBegin
    \/ CaptureBusy
    \/ CaptureIter
    \/ CaptureCommit

SpecCaptureRace == Init /\ [][NextCaptureRace]_vars

\* C38: whatever the interleaving of capture calls that submit the same
\* URL, the store holds at most one tab of that URL captured within a day
C38_OneTabPerUrl ==
    \A i, j \in 1..Len(tabs) :
        (i < j /\ tabs[i].url = tabs[j].url)
            => tabs[j].captured_at - tabs[i].captured_at >= Day

\* two calls that submit the same URL are in flight together: one is
\* inside its transaction and has inserted the URL, the other waits at its
\* first statement
C38_Witness ==
    \E k, m \in 1..Len(inflight) :
        /\ inflight[k].op = "capture_tabs" /\ inflight[m].op = "capture_tabs"
        /\ inflight[k].pc = "loop"
        /\ inflight[m].pc = "waiting"
        /\ inflight[k].req[1] = inflight[m].req[1]
        /\ inflight[k].i > 1
        /\ inflight[k].acc.tab_ids # <<>>
        /\ \E r \in 1..Len(inflight[k].acc.rows) :
              inflight[k].acc.rows[r].url = inflight[m].req[1]


(***************************************************************************)
(* Auto-triage next to human decisions.  triage_auto is a plain function   *)
(* run on the server's pool of threads: it reads the untriaged rows in one *)
(* transaction, which it commits and closes, and afterwards calls          *)
(* _triage_one for each of them, every call a transaction of its own.  A   *)
(* call is a record of `inflight` that holds what it selected.             *)
(***************************************************************************)
\* main.py:746-770  the selection, the undo batch, the purge; without rows
\* the call answers at once
auto_select ==
    LET ids == Untriaged(tabs)
        batch_id == issued + 1
    IN  IF ids = {}
        THEN /\ response' = [op |-> "triage_auto", status |-> "auto_triaged",
                             total |-> 0, saved |-> 0, starred |-> 0,
                             archived |-> 0, close_requested |-> 0,
                             batch_id |-> None]
             /\ UNCHANGED <<now, sessions, tabs, ignored, progress, started,
                            pending_close, undo_buffer, issued,
                            pending_re_extract, inflight>>
        ELSE /\ issued < MaxBatches
             /\ Len(inflight) < MaxThreads
             /\ issued' = batch_id
             /\ undo_buffer' =
                   PurgeOld(Extend(undo_buffer, batch_id,
                                [pre_state |->
                                     [k \in 1..Cardinality(ids) |->
                                         Snapshot(tabs, Ascending(ids)[k])],
                                 timestamp |-> now]),
                            now)
             /\ inflight' = Append(inflight,
                               [op |-> "triage_auto", ids |-> Ascending(ids),
                                sel |-> tabs, i |-> 1,
                                batch_id |-> batch_id])
             /\ UNCHANGED <<now, sessions, tabs, ignored, progress, started,
                            pending_close, pending_re_extract, response>>

\* main.py:792-793  _triage_one for the next item
auto_apply(k) ==
    LET h == inflight[k]
    IN  /\ h.op = "triage_auto"
        /\ h.i <= Len(h.ids)
        /\ tabs' = _triage_one(tabs, AutoItem(h.sel[h.ids[h.i]], h.ids[h.i]),
                               now)
        /\ inflight' = [inflight EXCEPT ![k].i = @ + 1]
        /\ UNCHANGED <<now, sessions, ignored, progress, started,
                       pending_close, undo_buffer, issued,
                       pending_re_extract, response>>

\* main.py:795-805  the URLs of the archived tabs are queued and the call
\* answers
auto_finish(k) ==
    LET h == inflight[k]
        ids == Range(h.ids)
        close_ids == Ascending({i \in ids :
                         h.sel[i].suggested_category = Some("archive")})
        counts == AutoCounts(h.sel, ids)
    IN  /\ h.op = "triage_auto"
        /\ h.i > Len(h.ids)
        /\ pending_close' = EnqueueAll(pending_close, tabs, close_ids)
        /\ response' = [op |-> "triage_auto", status |-> "auto_triaged",
                        total |-> Cardinality(ids),
                        saved |-> counts.saved,
                        starred |-> counts.starred,
                        archived |-> counts.archived,
                        close_requested |-> Len(close_ids),
                        batch_id |-> Some(h.batch_id)]
        /\ inflight' = Finished(inflight, k)
        /\ UNCHANGED <<now, sessions, tabs, ignored, progress, started,
                       undo_buffer, issued, pending_re_extract>>

AutoApply == \E k \in 1..Len(inflight) : auto_apply(k)
AutoFinish == \E k \in 1..Len(inflight) : auto_finish(k)

\* a human files a row as reference and stars it
HumanDecision ==
    \E i \in 1..2 : triage_single(Item(i, Some("reference"), Some(TRUE)))

NextAutoRace ==
    \/ auto_select
    \/ AutoApply
    \/ AutoFinish
    \/ HumanDecision
    \/ TriageAutoUndo

SpecAutoRace == InitDecisions /\ [][NextAutoRace]_vars

\* C40 (refuted): auto-triage changes a row only if the row is untriaged
\* when the change is applied: a row that a human decided after the
\* selection keeps its category, its star and its triaged_at
C40_AutoSparesDecided ==
    [][ \A k \in 1..Len(inflight) :
          (inflight[k].op = "triage_auto" /\ auto_apply(k))
              => LET t == inflight[k].ids[inflight[k].i]
                 IN  tabs[t].triaged_at # None => tabs'[t] = tabs[t] ]_vars

=============================================================================
